---- MODULE Spec2Model ----
(***************************************************************************)
(* The onboarding conversation of health_v2: the ChatManager state machine *)
(* (src/core/chat_manager.py), the coaching response generator             *)
(* (src/core/health_ai_engine.py) and the chat page that routes a message  *)
(* to one or the other (src/ui/streamlit_app.py).                          *)
(*                                                                         *)
(* A Python str is a sequence of characters, each character a one-element  *)
(* string; a character outside ASCII is written by its code point          *)
(* ("U+00F0"), so `in`, lower() and split() are computed on characters as  *)
(* Python computes them.  ChatMessage.timestamp is the wall clock at the   *)
(* append; nothing reads it and it is left out of a message.               *)
(***************************************************************************)
EXTENDS Integers, Sequences, FiniteSets, TLC

VARIABLES
    sessions,       \* ChatManager.sessions: user id -> ChatSession (a dict)
    step,           \* st.session_state.step: "profile" or "chat"
    ui_user_data,   \* st.session_state.user_data: None or the UserData of the form
    last            \* the last call: what was called, on what, and its outcome

vars == <<sessions, step, ui_user_data, last>>

\* The messages stored in all sessions together never exceed this.
MaxMessages == 10
\* The same bound for the runs of the chat page.
MaxAppMessages == 9

----------------------------------------------------------------------------
(* Python values *)

None == [none |-> TRUE]
Some(v) == [none |-> FALSE, val |-> v]
IsNone(x) == x.none

Return(v) == [kind |-> "return", value |-> v]
Raise(exc, text) == [kind |-> "raise", exc |-> exc, text |-> text]
Returned(o) == o.kind = "return"
Raised(o) == o.kind = "raise"

\* bool(s) of an Optional[str]: None and "" are falsy
truthy_opt(x) == ~IsNone(x) /\ Len(x.val) > 0

----------------------------------------------------------------------------
(* str operations *)

\* c.lower() for the cased characters that occur in the texts
LowerOf ==
    ("A" :> "a") @@ ("B" :> "b") @@ ("C" :> "c") @@ ("D" :> "d") @@ ("E" :> "e")
    @@ ("F" :> "f") @@ ("G" :> "g") @@ ("H" :> "h") @@ ("I" :> "i") @@ ("J" :> "j")
    @@ ("K" :> "k") @@ ("L" :> "l") @@ ("M" :> "m") @@ ("N" :> "n") @@ ("O" :> "o")
    @@ ("P" :> "p") @@ ("Q" :> "q") @@ ("R" :> "r") @@ ("S" :> "s") @@ ("T" :> "t")
    @@ ("U" :> "u") @@ ("V" :> "v") @@ ("W" :> "w") @@ ("X" :> "x") @@ ("Y" :> "y")
    @@ ("Z" :> "z") @@ ("U+0178" :> "U+00FF") @@ ("U+017D" :> "U+017E")

lower_char(c) == IF c \in DOMAIN LowerOf THEN LowerOf[c] ELSE c

\* s.lower()
lower(s) == [i \in DOMAIN s |-> lower_char(s[i])]

\* sub in s
contains(sub, s) ==
    LET n == Len(s)
        m == Len(sub)
    IN  /\ m <= n
        /\ \E i \in 0..(n - m) : \A j \in 1..m : s[i + j] = sub[j]

Whitespace == {" ", "\n", "\t"}

\* s.split(): the words of s, separated by runs of whitespace
RECURSIVE split_from(_, _, _)
split_from(s, i, word) ==
    IF i > Len(s)
    THEN IF word = <<>> THEN <<>> ELSE <<word>>
    ELSE IF s[i] \in Whitespace
         THEN IF word = <<>> THEN split_from(s, i + 1, <<>>)
              ELSE <<word>> \o split_from(s, i + 1, <<>>)
         ELSE split_from(s, i + 1, Append(word, s[i]))

split(s) == split_from(s, 1, <<>>)

\* s.strip()
strip(s) ==
    LET keep == {i \in DOMAIN s : s[i] \notin Whitespace}
    IN  IF keep = {} THEN <<>>
        ELSE LET lo == CHOOSE i \in keep : \A j \in keep : i <= j
                 hi == CHOOSE i \in keep : \A j \in keep : j <= i
             IN  SubSeq(s, lo, hi)

----------------------------------------------------------------------------
(* The literal texts of the source *)

\* chat_manager.py:58
session_not_found ==
    <<"S", "e", "s", "s", "i", "o", "n", " ", "n", "o", "t", " ", "f", "o", "u", "n",
      "d", ".", " ", "P", "l", "e", "a", "s", "e", " ", "s", "t", "a", "r", "t", " ",
      "o", "v", "e", "r", ".">>

\* chat_manager.py:73
not_sure_msg ==
    <<"I", "'", "m", " ", "n", "o", "t", " ", "s", "u", "r", "e", " ", "h", "o", "w",
      " ", "t", "o", " ", "h", "e", "l", "p", " ", "w", "i", "t", "h", " ", "t", "h",
      "a", "t", " ", "r", "i", "g", "h", "t", " ", "n", "o", "w", ".">>

\* chat_manager.py:79-83, the literal parts of the f-string
welcome_hey == <<"H", "e", "y", " ">>

welcome_mid ==
    <<"!", " ", "U+00F0", "U+0178", "U+2018", "U+2039", " ", "G", "r", "e", "a", "t", " ", "t", "o", " ",
      "m", "e", "e", "t", " ", "y", "o", "u", "!", "\n", "\n", "I", "'", "m", " ", "y",
      "o", "u", "r", " ", "A", "I", " ", "h", "e", "a", "l", "t", "h", " ", "c", "o",
      "a", "c", "h", ",", " ", "a", "n", "d", " ", "I", "'", "m", " ", "h", "e", "r",
      "e", " ", "t", "o", " ", "h", "e", "l", "p", " ", "y", "o", "u", " ", "w", "i",
      "t", "h", " ", "y", "o", "u", "r", " ", "g", "o", "a", "l", ":", " ", "\"">>

welcome_end ==
    <<"\"", "\n", "\n", "B", "e", "f", "o", "r", "e", " ", "w", "e", " ", "d", "i", "v",
      "e", " ", "i", "n", ",", " ", "I", "'", "d", " ", "l", "i", "k", "e", " ", "t",
      "o", " ", "a", "s", "k", " ", "y", "o", "u", " ", "a", " ", "f", "e", "w", " ",
      "q", "u", "i", "c", "k", " ", "q", "u", "e", "s", "t", "i", "o", "n", "s", " ",
      "t", "o", " ", "g", "i", "v", "e", " ", "y", "o", "u", " ", "t", "h", "e", " ",
      "b", "e", "s", "t", " ", "p", "o", "s", "s", "i", "b", "l", "e", " ", "g", "u",
      "i", "d", "a", "n", "c", "e", ".", " ", "S", "o", "u", "n", "d", " ", "g", "o",
      "o", "d", "?">>

\* chat_manager.py:88-94
focus_question ==
    <<"*", "*", "Q", "u", "e", "s", "t", "i", "o", "n", " ", "1", " ", "o", "f", " ",
      "3", ":", "*", "*", "\n", "\n", "W", "h", "a", "t", " ", "w", "o", "u", "l", "d",
      " ", "y", "o", "u", " ", "l", "i", "k", "e", " ", "h", "e", "l", "p", " ", "w",
      "i", "t", "h", " ", "t", "o", "d", "a", "y", "?", "\n", "U+00E2", "U+20AC", "U+00A2", " ", "*",
      "*", "F", "o", "o", "d", "*", "*", " ", "-", " ", "N", "u", "t", "r", "i", "t",
      "i", "o", "n", ",", " ", "m", "e", "a", "l", " ", "p", "l", "a", "n", "n", "i",
      "n", "g", ",", " ", "d", "i", "e", "t", " ", "o", "p", "t", "i", "m", "i", "z",
      "a", "t", "i", "o", "n", "\n", "U+00E2", "U+20AC", "U+00A2", " ", "*", "*", "W", "o", "r", "k",
      "o", "u", "t", "*", "*", " ", "-", " ", "E", "x", "e", "r", "c", "i", "s", "e",
      " ", "r", "o", "u", "t", "i", "n", "e", "s", ",", " ", "t", "r", "a", "i", "n",
      "i", "n", "g", " ", "p", "l", "a", "n", "s", ",", " ", "f", "i", "t", "n", "e",
      "s", "s", " ", "s", "t", "r", "a", "t", "e", "g", "i", "e", "s", "\n", "\n", "J",
      "u", "s", "t", " ", "t", "y", "p", "e", " ", "'", "f", "o", "o", "d", "'", " ",
      "o", "r", " ", "'", "w", "o", "r", "k", "o", "u", "t", "'", " ", "(", "o", "r",
      " ", "t", "e", "l", "l", " ", "m", "e", " ", "i", "n", " ", "y", "o", "u", "r",
      " ", "o", "w", "n", " ", "w", "o", "r", "d", "s", "!", ")">>

\* chat_manager.py:109-114
clarification ==
    <<"I", " ", "w", "a", "n", "t", " ", "t", "o", " ", "m", "a", "k", "e", " ", "s",
      "u", "r", "e", " ", "I", " ", "u", "n", "d", "e", "r", "s", "t", "a", "n", "d",
      "!", " ", "A", "r", "e", " ", "y", "o", "u", " ", "l", "o", "o", "k", "i", "n",
      "g", " ", "f", "o", "r", " ", "h", "e", "l", "p", " ", "w", "i", "t", "h", ":",
      "\n", "U+00E2", "U+20AC", "U+00A2", " ", "*", "*", "F", "o", "o", "d", "*", "*", " ", "(", "n",
      "u", "t", "r", "i", "t", "i", "o", "n", ",", " ", "m", "e", "a", "l", "s", ",",
      " ", "d", "i", "e", "t", ")", "\n", "U+00E2", "U+20AC", "U+00A2", " ", "*", "*", "W", "o", "r",
      "k", "o", "u", "t", "*", "*", " ", "(", "e", "x", "e", "r", "c", "i", "s", "e",
      ",", " ", "t", "r", "a", "i", "n", "i", "n", "g", ",", " ", "f", "i", "t", "n",
      "e", "s", "s", ")", "\n", "\n", "C", "o", "u", "l", "d", " ", "y", "o", "u", " ",
      "c", "l", "a", "r", "i", "f", "y", " ", "w", "h", "i", "c", "h", " ", "o", "n",
      "e", " ", "i", "n", "t", "e", "r", "e", "s", "t", "s", " ", "y", "o", "u", " ",
      "m", "o", "s", "t", "?">>

\* chat_manager.py:127-131
specific_question_workout ==
    <<"*", "*", "Q", "u", "e", "s", "t", "i", "o", "n", " ", "2", " ", "o", "f", " ",
      "3", ":", "*", "*", "\n", "\n", "D", "o", " ", "y", "o", "u", " ", "h", "a", "v",
      "e", " ", "a", "c", "c", "e", "s", "s", " ", "t", "o", " ", "a", " ", "g", "y",
      "m", ",", " ", "o", "r", " ", "w", "i", "l", "l", " ", "y", "o", "u", " ", "b",
      "e", " ", "w", "o", "r", "k", "i", "n", "g", " ", "o", "u", "t", " ", "a", "t",
      " ", "h", "o", "m", "e", "?", "\n", "\n", "T", "h", "i", "s", " ", "h", "e", "l",
      "p", "s", " ", "m", "e", " ", "r", "e", "c", "o", "m", "m", "e", "n", "d", " ",
      "t", "h", "e", " ", "r", "i", "g", "h", "t", " ", "e", "x", "e", "r", "c", "i",
      "s", "e", "s", " ", "a", "n", "d", " ", "e", "q", "u", "i", "p", "m", "e", "n",
      "t", " ", "f", "o", "r", " ", "y", "o", "u", "r", " ", "s", "i", "t", "u", "a",
      "t", "i", "o", "n", "!">>

\* chat_manager.py:133-139
specific_question_food ==
    <<"*", "*", "Q", "u", "e", "s", "t", "i", "o", "n", " ", "2", " ", "o", "f", " ",
      "3", ":", "*", "*", "\n", "\n", "W", "h", "a", "t", " ", "d", "o", " ", "y", "o",
      "u", " ", "u", "s", "u", "a", "l", "l", "y", " ", "e", "a", "t", " ", "i", "n",
      " ", "a", " ", "t", "y", "p", "i", "c", "a", "l", " ", "d", "a", "y", "?", " ",
      "D", "o", "n", "'", "t", " ", "w", "o", "r", "r", "y", " ", "a", "b", "o", "u",
      "t", " ", "b", "e", "i", "n", "g", " ", "p", "e", "r", "f", "e", "c", "t", " ",
      "-", " ", "j", "u", "s", "t", " ", "g", "i", "v", "e", " ", "m", "e", " ", "a",
      " ", "r", "o", "u", "g", "h", " ", "i", "d", "e", "a", "!", "\n", "\n", "F", "o",
      "r", " ", "e", "x", "a", "m", "p", "l", "e", ":", " ", "'", "C", "e", "r", "e",
      "a", "l", " ", "f", "o", "r", " ", "b", "r", "e", "a", "k", "f", "a", "s", "t",
      ",", " ", "s", "a", "n", "d", "w", "i", "c", "h", " ", "f", "o", "r", " ", "l",
      "u", "n", "c", "h", ",", " ", "p", "a", "s", "t", "a", " ", "f", "o", "r", " ",
      "d", "i", "n", "n", "e", "r", "'", " ", "o", "r", " ", "w", "h", "a", "t", "e",
      "v", "e", "r", " ", "f", "e", "e", "l", "s", " ", "n", "o", "r", "m", "a", "l",
      " ", "f", "o", "r", " ", "y", "o", "u", ".">>

\* chat_manager.py:153-162
final_question ==
    <<"*", "*", "F", "i", "n", "a", "l", " ", "q", "u", "e", "s", "t", "i", "o", "n",
      " ", "(", "3", " ", "o", "f", " ", "3", ")", ":", "*", "*", "\n", "\n", "I", "s",
      " ", "t", "h", "e", "r", "e", " ", "a", "n", "y", "t", "h", "i", "n", "g", " ",
      "e", "l", "s", "e", " ", "I", " ", "s", "h", "o", "u", "l", "d", " ", "k", "n",
      "o", "w", " ", "t", "o", " ", "g", "i", "v", "e", " ", "y", "o", "u", " ", "t",
      "h", "e", " ", "b", "e", "s", "t", " ", "a", "d", "v", "i", "c", "e", "?", " ",
      "\n", "\n", "T", "h", "i", "n", "g", "s", " ", "l", "i", "k", "e", ":", "\n", "U+00E2",
      "U+20AC", "U+00A2", " ", "I", "n", "j", "u", "r", "i", "e", "s", " ", "o", "r", " ", "p",
      "h", "y", "s", "i", "c", "a", "l", " ", "l", "i", "m", "i", "t", "a", "t", "i",
      "o", "n", "s", "\n", "U+00E2", "U+20AC", "U+00A2", " ", "D", "i", "e", "t", "a", "r", "y", " ",
      "r", "e", "s", "t", "r", "i", "c", "t", "i", "o", "n", "s", " ", "o", "r", " ",
      "p", "r", "e", "f", "e", "r", "e", "n", "c", "e", "s", "\n", "U+00E2", "U+20AC", "U+00A2", " ",
      "T", "i", "m", "e", " ", "c", "o", "n", "s", "t", "r", "a", "i", "n", "t", "s",
      "\n", "U+00E2", "U+20AC", "U+00A2", " ", "P", "a", "s", "t", " ", "e", "x", "p", "e", "r", "i",
      "e", "n", "c", "e", "s", " ", "w", "i", "t", "h", " ", "d", "i", "e", "t", "/",
      "e", "x", "e", "r", "c", "i", "s", "e", "\n", "\n", "O", "r", " ", "j", "u", "s",
      "t", " ", "t", "y", "p", "e", " ", "'", "n", "o", "t", "h", "i", "n", "g", " ",
      "e", "l", "s", "e", "'", " ", "i", "f", " ", "y", "o", "u", "'", "r", "e", " ",
      "a", "l", "l", " ", "s", "e", "t", "!">>

\* chat_manager.py:169-173
completion_msg ==
    <<"P", "e", "r", "f", "e", "c", "t", "!", " ", "U+00F0", "U+0178", "U+017D", "U+00AF", " ", "I", " ",
      "h", "a", "v", "e", " ", "e", "v", "e", "r", "y", "t", "h", "i", "n", "g", " ",
      "I", " ", "n", "e", "e", "d", ".", "\n", "\n", "B", "a", "s", "e", "d", " ", "o",
      "n", " ", "y", "o", "u", "r", " ", "p", "r", "o", "f", "i", "l", "e", " ", "a",
      "n", "d", " ", "a", "n", "s", "w", "e", "r", "s", ",", " ", "I", "'", "m", " ",
      "r", "e", "a", "d", "y", " ", "t", "o", " ", "b", "e", " ", "y", "o", "u", "r",
      " ", "p", "e", "r", "s", "o", "n", "a", "l", " ", "h", "e", "a", "l", "t", "h",
      " ", "c", "o", "a", "c", "h", ".", " ", "L", "e", "t", "'", "s", " ", "s", "t",
      "a", "r", "t", " ", "w", "i", "t", "h", " ", "y", "o", "u", "r", " ", "f", "i",
      "r", "s", "t", " ", "q", "u", "e", "s", "t", "i", "o", "n", " ", "o", "r", " ",
      "g", "o", "a", "l", " ", "-", " ", "w", "h", "a", "t", " ", "w", "o", "u", "l",
      "d", " ", "y", "o", "u", " ", "l", "i", "k", "e", " ", "t", "o", " ", "w", "o",
      "r", "k", " ", "o", "n", "?">>

\* chat_manager.py:180
ready_msg ==
    <<"I", "'", "m", " ", "r", "e", "a", "d", "y", " ", "t", "o", " ", "h", "e", "l",
      "p", "!", " ", "W", "h", "a", "t", "'", "s", " ", "y", "o", "u", "r", " ", "f",
      "i", "r", "s", "t", " ", "q", "u", "e", "s", "t", "i", "o", "n", "?">>

\* chat_manager.py:190
asked_workout ==
    <<"D", "o", " ", "y", "o", "u", " ", "h", "a", "v", "e", " ", "a", "c", "c", "e",
      "s", "s", " ", "t", "o", " ", "a", " ", "g", "y", "m", ",", " ", "o", "r", " ",
      "w", "i", "l", "l", " ", "y", "o", "u", " ", "b", "e", " ", "w", "o", "r", "k",
      "i", "n", "g", " ", "o", "u", "t", " ", "a", "t", " ", "h", "o", "m", "e", "?">>

\* chat_manager.py:192
asked_food ==
    <<"W", "h", "a", "t", " ", "d", "o", " ", "y", "o", "u", " ", "u", "s", "u", "a",
      "l", "l", "y", " ", "e", "a", "t", " ", "i", "n", " ", "a", " ", "t", "y", "p",
      "i", "c", "a", "l", " ", "d", "a", "y", "?">>

\* chat_manager.py:197
no_additional_info ==
    <<"N", "o", " ", "a", "d", "d", "i", "t", "i", "o", "n", "a", "l", " ", "i", "n",
      "f", "o", "r", "m", "a", "t", "i", "o", "n", " ", "p", "r", "o", "v", "i", "d",
      "e", "d">>

\* health_ai_engine.py:99-102
rate_limit_response ==
    <<"I", "'", "m", " ", "g", "e", "t", "t", "i", "n", "g", " ", "a", " ", "l", "o",
      "t", " ", "o", "f", " ", "r", "e", "q", "u", "e", "s", "t", "s", " ", "r", "i",
      "g", "h", "t", " ", "n", "o", "w", "!", " ", "P", "l", "e", "a", "s", "e", " ",
      "w", "a", "i", "t", " ", "a", " ", "m", "o", "m", "e", "n", "t", " ", "a", "n",
      "d", " ", "t", "r", "y", " ", "a", "g", "a", "i", "n", ".", " ", "I", "n", " ",
      "t", "h", "e", " ", "m", "e", "a", "n", "t", "i", "m", "e", ",", " ", "r", "e",
      "m", "e", "m", "b", "e", "r", " ", "t", "h", "a", "t", " ", "c", "o", "n", "s",
      "i", "s", "t", "e", "n", "c", "y", " ", "i", "s", " ", "k", "e", "y", " ", "t",
      "o", " ", "r", "e", "a", "c", "h", "i", "n", "g", " ", "y", "o", "u", "r", " ",
      "h", "e", "a", "l", "t", "h", " ", "g", "o", "a", "l", "s", "!", " ", "U+00F0", "U+0178",
      "U+2019", "U+00AA">>

\* health_ai_engine.py:62
invalid_prefix ==
    <<"I", " ", "a", "p", "o", "l", "o", "g", "i", "z", "e", ",", " ", "b", "u", "t",
      " ", "I", " ", "e", "n", "c", "o", "u", "n", "t", "e", "r", "e", "d", " ", "a",
      "n", " ", "i", "s", "s", "u", "e", " ", "p", "r", "o", "c", "e", "s", "s", "i",
      "n", "g", " ", "y", "o", "u", "r", " ", "r", "e", "q", "u", "e", "s", "t", ":",
      " ">>

kw_food == <<"f", "o", "o", "d">>
kw_eat == <<"e", "a", "t">>
kw_diet == <<"d", "i", "e", "t">>
kw_nutrition == <<"n", "u", "t", "r", "i", "t", "i", "o", "n">>
kw_meal == <<"m", "e", "a", "l">>
kw_workout == <<"w", "o", "r", "k", "o", "u", "t">>
kw_exercise == <<"e", "x", "e", "r", "c", "i", "s", "e">>
kw_gym == <<"g", "y", "m">>
kw_fitness == <<"f", "i", "t", "n", "e", "s", "s">>
kw_training == <<"t", "r", "a", "i", "n", "i", "n", "g">>
kw_rate_limit == <<"r", "a", "t", "e", "_", "l", "i", "m", "i", "t">>
kw_invalid == <<"i", "n", "v", "a", "l", "i", "d">>
marker_q1 ==
    <<"Q", "u", "e", "s", "t", "i", "o", "n", " ", "1", " ", "o", "f", " ", "3">>
name_sarah ==
    <<"S", "a", "r", "a", "h", " ", "J", "o", "h", "n", "s", "o", "n">>
name_mike == <<"M", "i", "k", "e", " ", "C", "h", "e", "n">>
name_al == <<"A", "l">>
goal_sarah ==
    <<"I", " ", "w", "a", "n", "t", " ", "t", "o", " ", "l", "o", "s", "e", " ", "1",
      "5", " ", "p", "o", "u", "n", "d", "s", " ", "a", "n", "d", " ", "t", "o", "n",
      "e", " ", "u", "p", " ", "f", "o", "r", " ", "s", "u", "m", "m", "e", "r">>
goal_mike ==
    <<"I", " ", "w", "a", "n", "t", " ", "t", "o", " ", "b", "u", "i", "l", "d", " ",
      "m", "u", "s", "c", "l", "e", " ", "a", "n", "d", " ", "g", "e", "t", " ", "s",
      "t", "r", "o", "n", "g", "e", "r">>
goal_al == <<"E", "a", "t", " ", "b", "e", "t", "t", "e", "r">>
msg_empty == <<>>
msg_no == <<"n", "o">>
msg_gym == <<"G", "y", "m">>
msg_both == <<"F", "O", "O", "D", " ", "a", "n", "d", " ", "g", "y", "m">>
err_rate ==
    <<"E", "r", "r", "o", "r", " ", "c", "o", "d", "e", ":", " ", "4", "2", "9", " ",
      "-", " ", "R", "a", "t", "e", "_", "L", "i", "m", "i", "t", " ", "r", "e", "a",
      "c", "h", "e", "d">>
err_rate_invalid ==
    <<"r", "a", "t", "e", "_", "l", "i", "m", "i", "t", "_", "e", "x", "c", "e", "e",
      "d", "e", "d", ":", " ", "i", "n", "v", "a", "l", "i", "d", " ", "q", "u", "o",
      "t", "a">>
err_invalid ==
    <<"I", "n", "v", "a", "l", "i", "d", " ", "r", "e", "q", "u", "e", "s", "t", ":",
      " ", "b", "a", "d", " ", "m", "o", "d", "e", "l">>
err_timeout ==
    <<"C", "o", "n", "n", "e", "c", "t", "i", "o", "n", " ", "t", "i", "m", "e", "d",
      " ", "o", "u", "t">>
err_no_focus ==
    <<"'", "N", "o", "n", "e", "T", "y", "p", "e", "'", " ", "o", "b", "j", "e", "c",
      "t", " ", "h", "a", "s", " ", "n", "o", " ", "a", "t", "t", "r", "i", "b", "u",
      "t", "e", " ", "'", "f", "o", "c", "u", "s", "_", "a", "r", "e", "a", "'">>
err_no_strip ==
    <<"'", "N", "o", "n", "e", "T", "y", "p", "e", "'", " ", "o", "b", "j", "e", "c",
      "t", " ", "h", "a", "s", " ", "n", "o", " ", "a", "t", "t", "r", "i", "b", "u",
      "t", "e", " ", "'", "s", "t", "r", "i", "p", "'">>
err_none_get ==
    <<"'", "N", "o", "n", "e", "T", "y", "p", "e", "'", " ", "o", "b", "j", "e", "c",
      "t", " ", "h", "a", "s", " ", "n", "o", " ", "a", "t", "t", "r", "i", "b", "u",
      "t", "e", " ", "'", "g", "e", "t", "'">>
err_model_get ==
    <<"'", "O", "n", "b", "o", "a", "r", "d", "i", "n", "g", "A", "n", "s", "w", "e",
      "r", "s", "'", " ", "o", "b", "j", "e", "c", "t", " ", "h", "a", "s", " ", "n",
      "o", " ", "a", "t", "t", "r", "i", "b", "u", "t", "e", " ", "'", "g", "e", "t",
      "'">>
reply_squats ==
    <<" ", "T", "r", "y", " ", "t", "h", "r", "e", "e", " ", "s", "e", "t", "s", " ",
      "o", "f", " ", "s", "q", "u", "a", "t", "s", ".", "\n">>

----------------------------------------------------------------------------
(* Profiles and user data (src/core/profile_manager.py) *)

\* OnboardingAnswers.specific_question_answer: Field(..., min_length=3, max_length=1000)
MinAnswerLen == 3
MaxAnswerLen == 1000
\* OnboardingAnswers.additional_info: Field(None, max_length=1000)
MaxInfoLen == 1000

FocusAreas == {kw_food, kw_workout}

\* OnboardingAnswers(...): pydantic validates the fields at construction
OnboardingAnswers(focus_area, specific_question_answer, additional_info, specific_question) ==
    IF \/ focus_area \notin FocusAreas
       \/ Len(specific_question_answer) < MinAnswerLen
       \/ Len(specific_question_answer) > MaxAnswerLen
       \/ (~IsNone(additional_info) /\ Len(additional_info.val) > MaxInfoLen)
    THEN Raise("ValidationError", <<>>)
    ELSE Return([focus_area |-> focus_area,
                 specific_question_answer |-> specific_question_answer,
                 additional_info |-> additional_info,
                 specific_question |-> specific_question])

CoachStyles == {"normal", "david_goggins"}

\* The characters str.isalpha() holds for, among those of the texts
Letters == DOMAIN LowerOf \cup {LowerOf[c] : c \in DOMAIN LowerOf}

\* s.title(): a letter that follows no letter in upper case, the others in
\* lower case
title(s) ==
    [i \in DOMAIN s |->
        IF i > 1 /\ s[i - 1] \in Letters THEN lower_char(s[i])
        ELSE IF \E u \in DOMAIN LowerOf : LowerOf[u] = s[i]
             THEN CHOOSE u \in DOMAIN LowerOf : LowerOf[u] = s[i]
             ELSE s[i]]

\* @validator('name'): the name without its spaces, hyphens and apostrophes
\* must be alphabetic (which the empty string is not)
validate_name(v) ==
    LET kept == SelectSeq(v, LAMBDA c : c \notin {" ", "-", "'"})
    IN  IF kept = <<>> \/ \E i \in DOMAIN kept : kept[i] \notin Letters
        THEN Raise("ValueError", <<>>)
        ELSE Return(title(strip(v)))

\* The limits of the fields of UserProfile
ProfileLimits ==
    [name |-> <<1, 100>>, age |-> <<13, 120>>, height_cm |-> <<100, 250>>,
     weight_kg |-> <<30, 300>>, goal |-> <<5, 500>>]

Genders == {<<"m", "a", "l", "e">>, <<"f", "e", "m", "a", "l", "e">>, <<"o", "t", "h", "e", "r">>}
ExerciseFrequencies ==
    { <<"n", "e", "v", "e", "r">>, <<"r", "a", "r", "e", "l", "y">>,
      <<"1", "-", "2", "_", "t", "i", "m", "e", "s", "_", "w", "e", "e", "k">>,
      <<"3", "-", "4", "_", "t", "i", "m", "e", "s", "_", "w", "e", "e", "k">>,
      <<"5", "-", "6", "_", "t", "i", "m", "e", "s", "_", "w", "e", "e", "k">>,
      <<"d", "a", "i", "l", "y">> }

\* mutant: an age below the lower limit is raised to it, one above the upper
\* limit lowered to it
UserProfile_age_clamped(name, age, gender, height_cm, weight_kg, exercise_frequency, goal) ==
    IF \/ Len(name) < ProfileLimits.name[1] \/ Len(name) > ProfileLimits.name[2]
       \/ gender \notin Genders
       \/ height_cm < 2 * ProfileLimits.height_cm[1]
       \/ height_cm > 2 * ProfileLimits.height_cm[2]
       \/ weight_kg < 2 * ProfileLimits.weight_kg[1]
       \/ weight_kg > 2 * ProfileLimits.weight_kg[2]
       \/ exercise_frequency \notin ExerciseFrequencies
       \/ Len(goal) < ProfileLimits.goal[1] \/ Len(goal) > ProfileLimits.goal[2]
       \/ Raised(validate_name(name))
    THEN Raise("ValidationError", <<>>)
    ELSE Return([name |-> validate_name(name).value,
                 age |-> IF age < ProfileLimits.age[1] THEN ProfileLimits.age[1]
                         ELSE IF age > ProfileLimits.age[2] THEN ProfileLimits.age[2]
                         ELSE age,
                 gender |-> gender,
                 height_cm |-> height_cm, weight_kg |-> weight_kg,
                 exercise_frequency |-> exercise_frequency, goal |-> goal])

\* UserProfile(...): pydantic checks every field against its limits, then the
\* name with validate_name.  height_cm and weight_kg are floats; they are held
\* here as the number of half units (165.0 cm is 330), the step of the number
\* inputs of the profile form.
UserProfile(name, age, gender, height_cm, weight_kg, exercise_frequency, goal) ==
    IF \/ Len(name) < ProfileLimits.name[1] \/ Len(name) > ProfileLimits.name[2]
       \/ age < ProfileLimits.age[1] \/ age > ProfileLimits.age[2]
       \/ gender \notin Genders
       \/ height_cm < 2 * ProfileLimits.height_cm[1]
       \/ height_cm > 2 * ProfileLimits.height_cm[2]
       \/ weight_kg < 2 * ProfileLimits.weight_kg[1]
       \/ weight_kg > 2 * ProfileLimits.weight_kg[2]
       \/ exercise_frequency \notin ExerciseFrequencies
       \/ Len(goal) < ProfileLimits.goal[1] \/ Len(goal) > ProfileLimits.goal[2]
       \/ Raised(validate_name(name))
    THEN Raise("ValidationError", <<>>)
    ELSE Return([name |-> validate_name(name).value, age |-> age, gender |-> gender,
                 height_cm |-> height_cm, weight_kg |-> weight_kg,
                 exercise_frequency |-> exercise_frequency, goal |-> goal])

\* The profiles of test_chat.py and of test_ai.py, and one entered on the
\* profile form with the defaults of its number inputs
Profiles ==
    [sarah |-> UserProfile(name_sarah, 28, <<"f", "e", "m", "a", "l", "e">>, 330, 136,
                           <<"3", "-", "4", "_", "t", "i", "m", "e", "s", "_", "w", "e", "e", "k">>,
                           goal_sarah).value,
     mike |-> UserProfile(name_mike, 32, <<"m", "a", "l", "e">>, 360, 170,
                          <<"r", "a", "r", "e", "l", "y">>, goal_mike).value,
     al |-> UserProfile(name_al, 25, <<"o", "t", "h", "e", "r">>, 340, 140,
                        <<"n", "e", "v", "e", "r">>, goal_al).value]

\* UserData(user_id=..., profile=...): onboarding defaults to None
UserData(user_id, profile, style, onboarding) ==
    [user_id |-> user_id,
     profile |-> profile,
     onboarding |-> onboarding,
     coach_style |-> style]

UserIds == {"u1", "u2"}

\* The user data a caller may present: valid profiles (the name already
\* stripped and title-cased by validate_name), onboarding not set.
UserDatas ==
    { UserData("u1", Profiles.sarah, "normal", None),
      UserData("u1", Profiles.al, "david_goggins", None),
      UserData("u2", Profiles.mike, "david_goggins", None) }

\* What a user may type
Messages == {msg_empty, msg_no, msg_gym, msg_both}

----------------------------------------------------------------------------
(* ChatManager (src/core/chat_manager.py) *)

\* class ChatState(Enum), in the order its members are declared
StageOrder ==
    <<"welcome", "asking_focus", "asking_specific", "asking_additional",
      "onboarding_complete", "main_chat">>

ChatMessage(role, content) == [role |-> role, content |-> content]

ChatSession(user_id) ==
    [user_id |-> user_id,
     state |-> "welcome",
     messages |-> <<>>,
     focus_area |-> None,
     specific_answer |-> None,
     additional_info |-> None]

\* ChatManager.__init__: self.sessions = {}
NoSessions == [u \in {} |-> None]

\* mutant: one message list is shared by all the sessions (a mutable default)
put_shared_messages(ss, user_id, session) ==
    [u \in DOMAIN ss \cup {user_id} |->
        IF u = user_id THEN session ELSE [ss[u] EXCEPT !.messages = session.messages]]

\* self.sessions[user_id] = session
put(ss, user_id, session) ==
    [u \in DOMAIN ss \cup {user_id} |-> IF u = user_id THEN session ELSE ss[u]]

\* mutant: the message is put in front of the history (messages.insert(0, message))
_add_message_front(session, role, content) ==
    [session EXCEPT !.messages = <<ChatMessage(role, content)>> \o @]

_add_message(session, role, content) ==
    [session EXCEPT !.messages = Append(@, ChatMessage(role, content))]

_generate_welcome_message(user_data) ==
    LET words == split(user_data.profile.name)
    IN  IF words = <<>> THEN Raise("IndexError", <<>>)
        ELSE Return(welcome_hey \o words[1] \o welcome_mid
                    \o user_data.profile.goal \o welcome_end)

\* mutant: the first question is taken for the last one
_get_focus_question_last == final_question

_get_focus_question == focus_question

\* start_chat_session keeping the session the user id already has
\* (self.sessions.setdefault(user_id, session))
start_chat_session_setdefault(ss, user_data) ==
    LET user_id == user_data.user_id
        session == IF user_id \in DOMAIN ss THEN ss[user_id] ELSE ChatSession(user_id)
        welcome == _generate_welcome_message(user_data)
    IN  IF Raised(welcome)
        THEN [sessions |-> put(ss, user_id, session), out |-> welcome]
        ELSE LET s1 == _add_message(session, "assistant", welcome.value)
                 s2 == [s1 EXCEPT !.state = "asking_focus"]
                 s3 == _add_message(s2, "assistant", _get_focus_question)
             IN  [sessions |-> put(ss, user_id, s3),
                  out |-> Return(_get_focus_question)]

\* mutant: the session is left in welcome after the first question is asked
start_chat_session_stays_welcome(ss, user_data) ==
    LET session == ChatSession(user_data.user_id)
        welcome == _generate_welcome_message(user_data)
    IN  IF Raised(welcome)
        THEN [sessions |-> put(ss, user_data.user_id, session), out |-> welcome]
        ELSE LET s1 == _add_message(session, "assistant", welcome.value)
                 s3 == _add_message(s1, "assistant", _get_focus_question)
             IN  [sessions |-> put(ss, user_data.user_id, s3),
                  out |-> Return(_get_focus_question)]

\* The session is stored before the welcome message is built, and every later
\* change is made to the stored object.
start_chat_session(ss, user_data) ==
    LET session == ChatSession(user_data.user_id)
        welcome == _generate_welcome_message(user_data)
    IN  IF Raised(welcome)
        THEN [sessions |-> put(ss, user_data.user_id, session), out |-> welcome]
        ELSE LET s1 == _add_message(session, "assistant", welcome.value)
                 s2 == [s1 EXCEPT !.state = "asking_focus"]
                 s3 == _add_message(s2, "assistant", _get_focus_question)
             IN  [sessions |-> put(ss, user_data.user_id, s3),
                  out |-> Return(_get_focus_question)]

FoodWords == {kw_food, kw_eat, kw_diet, kw_nutrition, kw_meal}
WorkoutWords == {kw_workout, kw_exercise, kw_gym, kw_fitness, kw_training}

_get_specific_question(focus_area) ==
    IF focus_area = kw_workout THEN specific_question_workout
    ELSE specific_question_food

_get_final_question == final_question

\* mutant: the workout words are tried first
_handle_focus_question_workout_first(session, message) ==
    LET message_lower == lower(message)
        isFood == \E word \in FoodWords : contains(word, message_lower)
        isWorkout == \E word \in WorkoutWords : contains(word, message_lower)
        focus_detected == IF isWorkout THEN kw_workout ELSE kw_food
    IN  IF isFood \/ isWorkout
        THEN LET s1 == [session EXCEPT !.focus_area = Some(focus_detected),
                                       !.state = "asking_specific"]
                 q == _get_specific_question(focus_detected)
             IN  [session |-> _add_message(s1, "assistant", q), ret |-> q]
        ELSE [session |-> _add_message(session, "assistant", clarification),
              ret |-> clarification]

\* mutant: an unclear answer is taken for food
_handle_focus_question_default_food(session, message) ==
    LET message_lower == lower(message)
        isWorkout == \E word \in WorkoutWords : contains(word, message_lower)
        focus_detected == IF isWorkout THEN kw_workout ELSE kw_food
        s1 == [session EXCEPT !.focus_area = Some(focus_detected),
                              !.state = "asking_specific"]
        q == _get_specific_question(focus_detected)
    IN  [session |-> _add_message(s1, "assistant", q), ret |-> q]

\* Each handler gives the session as it leaves it and the text it returns.
_handle_focus_question(session, message) ==
    LET message_lower == lower(message)
        isFood == \E word \in FoodWords : contains(word, message_lower)
        isWorkout == \E word \in WorkoutWords : contains(word, message_lower)
        focus_detected == IF isFood THEN kw_food ELSE kw_workout
    IN  IF isFood \/ isWorkout
        THEN LET s1 == [session EXCEPT !.focus_area = Some(focus_detected),
                                       !.state = "asking_specific"]
                 q == _get_specific_question(focus_detected)
             IN  [session |-> _add_message(s1, "assistant", q), ret |-> q]
        ELSE [session |-> _add_message(session, "assistant", clarification),
              ret |-> clarification]

\* mutant: the lower-cased answer is stored
_handle_specific_question_lowered(session, message) ==
    LET s1 == [session EXCEPT !.specific_answer = Some(lower(message)),
                              !.state = "asking_additional"]
    IN  [session |-> _add_message(s1, "assistant", _get_final_question),
         ret |-> _get_final_question]

\* mutant: an answer to the second question that holds a food word moves the
\* focus to food
_handle_specific_question_refocus(session, message) ==
    LET isFood == \E word \in FoodWords : contains(word, lower(message))
        s1 == [session EXCEPT !.specific_answer = Some(message),
                              !.focus_area = IF isFood THEN Some(kw_food) ELSE @,
                              !.state = "asking_additional"]
    IN  [session |-> _add_message(s1, "assistant", _get_final_question),
         ret |-> _get_final_question]

\* mutant: an empty answer to the second question is asked for again
_handle_specific_question_reask(session, message) ==
    IF message = <<>>
    THEN [session |-> _add_message(session, "assistant", _get_final_question),
          ret |-> _get_final_question]
    ELSE LET s1 == [session EXCEPT !.specific_answer = Some(message),
                                   !.state = "asking_additional"]
         IN  [session |-> _add_message(s1, "assistant", _get_final_question),
              ret |-> _get_final_question]

_handle_specific_question(session, message) ==
    LET s1 == [session EXCEPT !.specific_answer = Some(message),
                              !.state = "asking_additional"]
    IN  [session |-> _add_message(s1, "assistant", _get_final_question),
         ret |-> _get_final_question]

_handle_additional_question(session, message) ==
    LET s1 == [session EXCEPT !.additional_info = Some(message),
                              !.state = "onboarding_complete"]
    IN  [session |-> _add_message(s1, "assistant", completion_msg),
         ret |-> completion_msg]

\* mutant: the interview starts again
_handle_onboarding_complete_again(session) ==
    [session |-> [session EXCEPT !.state = "asking_focus"], ret |-> ready_msg]

_handle_onboarding_complete(session) ==
    [session |-> [session EXCEPT !.state = "main_chat"], ret |-> ready_msg]

\* mutant: an unknown user id gets a session (sessions.setdefault)
process_user_message_setdefault(ss, user_id, message) ==
    LET known == IF user_id \in DOMAIN ss THEN ss
                 ELSE put(ss, user_id, ChatSession(user_id))
        session == _add_message(known[user_id], "user", message)
        r == CASE session.state = "asking_focus" ->
                    _handle_focus_question(session, message)
               [] session.state = "asking_specific" ->
                    _handle_specific_question(session, message)
               [] session.state = "asking_additional" ->
                    _handle_additional_question(session, message)
               [] session.state = "onboarding_complete" ->
                    _handle_onboarding_complete(session)
               [] OTHER -> [session |-> session, ret |-> not_sure_msg]
    IN  IF user_id \in DOMAIN ss
        THEN [sessions |-> put(ss, user_id, r.session), out |-> Return(r.ret)]
        ELSE [sessions |-> known, out |-> Return(session_not_found)]

process_user_message(ss, user_id, message) ==
    IF user_id \notin DOMAIN ss
    THEN [sessions |-> ss, out |-> Return(session_not_found)]
    ELSE LET session == _add_message(ss[user_id], "user", message)
             r == CASE session.state = "asking_focus" ->
                         _handle_focus_question(session, message)
                    [] session.state = "asking_specific" ->
                         _handle_specific_question(session, message)
                    [] session.state = "asking_additional" ->
                         _handle_additional_question(session, message)
                    [] session.state = "onboarding_complete" ->
                         _handle_onboarding_complete(session)
                    [] OTHER -> [session |-> session, ret |-> not_sure_msg]
         IN  [sessions |-> put(ss, user_id, r.session), out |-> Return(r.ret)]

\* mutant: the question reported is the food one whatever the focus is
get_onboarding_data_food_question(ss, user_id) ==
    IF user_id \notin DOMAIN ss THEN Return(None)
    ELSE LET session == ss[user_id]
         IN  IF ~(truthy_opt(session.focus_area) /\ truthy_opt(session.specific_answer))
             THEN Return(None)
             ELSE LET made == OnboardingAnswers(
                                  session.focus_area.val,
                                  session.specific_answer.val,
                                  IF truthy_opt(session.additional_info)
                                  THEN session.additional_info
                                  ELSE Some(no_additional_info),
                                  asked_food)
                  IN  IF Raised(made) THEN made ELSE Return(Some(made.value))

get_onboarding_data(ss, user_id) ==
    IF user_id \notin DOMAIN ss THEN Return(None)
    ELSE LET session == ss[user_id]
         IN  IF ~(truthy_opt(session.focus_area) /\ truthy_opt(session.specific_answer))
             THEN Return(None)
             ELSE LET specific_question ==
                          IF session.focus_area.val = kw_workout THEN asked_workout
                          ELSE asked_food
                      made == OnboardingAnswers(
                                  session.focus_area.val,
                                  session.specific_answer.val,
                                  IF truthy_opt(session.additional_info)
                                  THEN session.additional_info
                                  ELSE Some(no_additional_info),
                                  specific_question)
                  IN  IF Raised(made) THEN made ELSE Return(Some(made.value))

\* mutant: only main_chat counts as complete
is_onboarding_complete_main_only(ss, user_id) ==
    IF user_id \in DOMAIN ss THEN Some(ss[user_id].state = "main_chat") ELSE None

\* `session and session.state in [...]`: None when there is no session
is_onboarding_complete(ss, user_id) ==
    IF user_id \notin DOMAIN ss THEN None
    ELSE Some(ss[user_id].state \in {"onboarding_complete", "main_chat"})

\* bool(x) of what is_onboarding_complete returns
truthy_bool(x) == ~IsNone(x) /\ x.val

get_chat_history(ss, user_id) ==
    IF user_id \in DOMAIN ss THEN ss[user_id].messages ELSE <<>>

----------------------------------------------------------------------------
(* PromptBuilder (src/core/prompt_builder.py) *)

\* the keywords whose presence in msg.content.lower() drops a message from the
\* conversation context
OnboardingMarkers ==
    { <<"q", "u", "e", "s", "t", "i", "o", "n", " ", "1", " ", "o", "f", " ", "3">>,
      <<"q", "u", "e", "s", "t", "i", "o", "n", " ", "2", " ", "o", "f", " ", "3">>,
      <<"f", "i", "n", "a", "l", " ", "q", "u", "e", "s", "t", "i", "o", "n">>,
      <<"p", "e", "r", "f", "e", "c", "t", "!", " ", "U+1F3AF">> }

conversation_start ==
    <<"T", "h", "i", "s", " ", "i", "s", " ", "t", "h", "e", " ", "s", "t", "a", "r",
      "t", " ", "o", "f", " ", "y", "o", "u", "r", " ", "c", "o", "n", "v", "e", "r",
      "s", "a", "t", "i", "o", "n", ".">>

conversation_beginning ==
    <<"T", "h", "i", "s", " ", "i", "s", " ", "t", "h", "e", " ", "b", "e", "g", "i",
      "n", "n", "i", "n", "g", " ", "o", "f", " ", "y", "o", "u", "r", " ", "c", "o",
      "a", "c", "h", "i", "n", "g", " ", "c", "o", "n", "v", "e", "r", "s", "a", "t",
      "i", "o", "n", ".">>

recent_conversation ==
    <<"R", "E", "C", "E", "N", "T", " ", "C", "O", "N", "V", "E", "R", "S", "A", "T",
      "I", "O", "N", ":", "\n">>

\* a list's slice [-n:]
last_n(s, n) == IF Len(s) > n THEN SubSeq(s, Len(s) - n + 1, Len(s)) ELSE s

\* any(keyword in msg.content.lower() for keyword in [...])
has_marker(msg) == \E keyword \in OnboardingMarkers : contains(keyword, lower(msg.content))

\* f"{role}: {msg.content}\n" with role USER for a user message, COACH for
\* any other
render_message(msg) ==
    (IF msg.role = "user" THEN <<"U", "S", "E", "R">> ELSE <<"C", "O", "A", "C", "H">>)
        \o <<":", " ">> \o msg.content \o <<"\n">>

RECURSIVE render_messages(_)
render_messages(msgs) ==
    IF msgs = <<>> THEN <<>>
    ELSE render_message(Head(msgs)) \o render_messages(Tail(msgs))

\* the default of max_messages, and the number of conversation messages kept
MaxContextMessages == 10
MaxRendered == 5

\* mutant: the onboarding messages are dropped from the whole history before
\* the last ten are taken
build_conversation_context_filter_first(chat_history) ==
    IF chat_history = <<>> THEN conversation_start
    ELSE LET conversation_messages ==
                 SelectSeq(chat_history, LAMBDA msg : ~has_marker(msg))
             recent_messages == last_n(conversation_messages, MaxContextMessages)
         IN  IF recent_messages = <<>> THEN conversation_beginning
             ELSE recent_conversation
                      \o render_messages(last_n(recent_messages, MaxRendered))

build_conversation_context(chat_history) ==
    IF chat_history = <<>> THEN conversation_start
    ELSE LET recent_messages == last_n(chat_history, MaxContextMessages)
             conversation_messages ==
                 SelectSeq(recent_messages, LAMBDA msg : ~has_marker(msg))
         IN  IF conversation_messages = <<>> THEN conversation_beginning
             ELSE recent_conversation
                      \o render_messages(last_n(conversation_messages, MaxRendered))

\* self.base_coach_personality
base_coach_personality ==
    [ normal |->
          [ personality |->
                <<"Y", "o", "u", "'", "r", "e", " ", "a", " ", "k", "n", "o", "w", "l", "e", "d",
                  "g", "e", "a", "b", "l", "e", " ", "b", "u", "t", " ", "a", "p", "p", "r", "o",
                  "a", "c", "h", "a", "b", "l", "e", " ", "h", "e", "a", "l", "t", "h", " ", "c",
                  "o", "a", "c", "h">>,
            tone |->
                <<"f", "r", "i", "e", "n", "d", "l", "y", ",", " ", "e", "n", "c", "o", "u", "r",
                  "a", "g", "i", "n", "g", ",", " ", "a", "n", "d", " ", "s", "u", "p", "p", "o",
                  "r", "t", "i", "v", "e">>,
            style |->
                <<"G", "i", "v", "e", " ", "p", "r", "a", "c", "t", "i", "c", "a", "l", ",", " ",
                  "s", "c", "i", "e", "n", "c", "e", "-", "b", "a", "s", "e", "d", " ", "a", "d",
                  "v", "i", "c", "e", " ", "w", "i", "t", "h", " ", "a", " ", "w", "a", "r", "m",
                  ",", " ", "m", "o", "t", "i", "v", "a", "t", "i", "o", "n", "a", "l", " ", "t",
                  "o", "n", "e">> ],
      david_goggins |->
          [ personality |->
                <<"Y", "o", "u", "'", "r", "e", " ", "D", "a", "v", "i", "d", " ", "G", "o", "g",
                  "g", "i", "n", "s", " ", "-", " ", "m", "e", "n", "t", "a", "l", " ", "t", "o",
                  "u", "g", "h", "n", "e", "s", "s", ",", " ", "d", "i", "s", "c", "i", "p", "l",
                  "i", "n", "e", ",", " ", "e", "m", "b", "r", "a", "c", "e", " ", "t", "h", "e",
                  " ", "s", "u", "c", "k">>,
            tone |->
                <<"i", "n", "t", "e", "n", "s", "e", ",", " ", "d", "i", "r", "e", "c", "t", ",",
                  " ", "a", "n", "d", " ", "n", "o", "-", "n", "o", "n", "s", "e", "n", "s", "e">>,
            style |->
                <<"C", "h", "a", "l", "l", "e", "n", "g", "e", " ", "t", "h", "e", "m", " ", "w",
                  "i", "t", "h", " ", "t", "o", "u", "g", "h", " ", "l", "o", "v", "e", ",", " ",
                  "p", "u", "s", "h", " ", "t", "h", "e", "m", " ", "b", "e", "y", "o", "n", "d",
                  " ", "c", "o", "m", "f", "o", "r", "t", " ", "z", "o", "n", "e", "s">> ] ]

\* the literal parts of the f-string of build_system_prompt, in order
system_prompt_parts ==
    << <<"Y", "o", "u", " ", "a", "r", "e", " ", "a", "n", " ", "e", "x", "p", "e", "r",
         "t", " ", "A", "I", " ", "h", "e", "a", "l", "t", "h", " ", "c", "o", "a", "c",
         "h", " ", "w", "i", "t", "h", " ", "t", "h", "e", " ", "f", "o", "l", "l", "o",
         "w", "i", "n", "g", " ", "p", "e", "r", "s", "o", "n", "a", "l", "i", "t", "y",
         " ", "a", "n", "d", " ", "a", "p", "p", "r", "o", "a", "c", "h", ":", "\n", "\n",
         "C", "O", "A", "C", "H", " ", "P", "E", "R", "S", "O", "N", "A", "L", "I", "T",
         "Y", " ", "&", " ", "T", "O", "N", "E", ":", "\n">>,
       <<"\n", "T", "o", "n", "e", ":", " ">>,
       <<"\n", "S", "t", "y", "l", "e", ":", " ">>,
       <<"\n", "\n", "U", "S", "E", "R", " ", "P", "R", "O", "F", "I", "L", "E", " ", "&",
         " ", "C", "O", "N", "T", "E", "X", "T", ":", "\n">>,
       <<"\n", "\n", "C", "O", "A", "C", "H", "I", "N", "G", " ", "G", "U", "I", "D", "E",
         "L", "I", "N", "E", "S", ":", "\n">>,
       <<"\n", "\n", "R", "E", "S", "P", "O", "N", "S", "E", " ", "F", "O", "R", "M", "A",
         "T", " ", "&", " ", "F", "O", "C", "U", "S", ":", "\n">>,
       <<"\n", "\n", "R", "e", "m", "e", "m", "b", "e", "r", ":", " ", "A", "l", "w", "a",
         "y", "s", " ", "b", "e", " ", "h", "e", "l", "p", "f", "u", "l", ",", " ", "e",
         "v", "i", "d", "e", "n", "c", "e", "-", "b", "a", "s", "e", "d", ",", " ", "a",
         "n", "d", " ", "t", "a", "i", "l", "o", "r", "e", "d", " ", "t", "o", " ", "t",
         "h", "i", "s", " ", "s", "p", "e", "c", "i", "f", "i", "c", " ", "u", "s", "e",
         "r", "'", "s", " ", "c", "o", "n", "t", "e", "x", "t", ".">> >>

\* the literal parts of the f-string of _build_user_context, in order
user_context_parts ==
    << <<"\n", "N", "a", "m", "e", ":", " ">>,
       <<"\n", "A", "g", "e", ":", " ">>,
       <<" ", "y", "e", "a", "r", "s", " ", "o", "l", "d", "\n", "G", "e", "n", "d", "e",
         "r", ":", " ">>,
       <<"\n", "H", "e", "i", "g", "h", "t", ":", " ">>,
       <<"c", "m", " ", "(">>,
       <<")", "\n", "W", "e", "i", "g", "h", "t", ":", " ">>,
       <<"k", "g", " ", "(">>,
       <<"l", "b", "s", ")", "\n", "B", "M", "I", ":", " ">>,
       <<" ", "(">>,
       <<")", "\n", "E", "x", "e", "r", "c", "i", "s", "e", " ", "F", "r", "e", "q", "u",
         "e", "n", "c", "y", ":", " ">>,
       <<"\n", "P", "r", "i", "m", "a", "r", "y", " ", "G", "o", "a", "l", ":", " ", "\"">>,
       <<"\"", "\n", "\n", "O", "N", "B", "O", "A", "R", "D", "I", "N", "G", " ", "R", "E",
         "S", "P", "O", "N", "S", "E", "S", ":", "\n", "F", "o", "c", "u", "s", " ", "A",
         "r", "e", "a", ":", " ">>,
       <<"\n">>,
       <<"\n", "A", "n", "s", "w", "e", "r", ":", " ", "\"">>,
       <<"\"", "\n", "A", "d", "d", "i", "t", "i", "o", "n", "a", "l", " ", "C", "o", "n",
         "t", "e", "x", "t", ":", " ", "\"">>,
       <<"\"", "\n">> >>

\* the literal parts of the f-string of build_coaching_prompt, in order
full_prompt_parts ==
    << <<>>,
       <<"\n", "\n">>,
       <<"\n", "\n", "U", "S", "E", "R", "'", "S", " ", "C", "U", "R", "R", "E", "N", "T",
         " ", "M", "E", "S", "S", "A", "G", "E", ":", " ", "\"">>,
       <<"\"", "\n", "\n", "P", "r", "o", "v", "i", "d", "e", " ", "a", " ", "h", "e", "l",
         "p", "f", "u", "l", ",", " ", "p", "e", "r", "s", "o", "n", "a", "l", "i", "z",
         "e", "d", " ", "r", "e", "s", "p", "o", "n", "s", "e", " ", "a", "s", " ", "t",
         "h", "e", "i", "r", " ", "h", "e", "a", "l", "t", "h", " ", "c", "o", "a", "c",
         "h", ".", " ", "B", "e", " ", "s", "p", "e", "c", "i", "f", "i", "c", ",", " ",
         "a", "c", "t", "i", "o", "n", "a", "b", "l", "e", ",", " ", "a", "n", "d", " ",
         "t", "a", "i", "l", "o", "r", "e", "d", " ", "t", "o", " ", "t", "h", "e", "i",
         "r", " ", "p", "r", "o", "f", "i", "l", "e", " ", "a", "n", "d", " ", "g", "o",
         "a", "l", "s", ".">> >>

\* the two texts of _get_coaching_guidelines
coaching_guidelines ==
    [ david_goggins |->
          <<"\n", "U+2022", " ", "P", "u", "s", "h", " ", "t", "h", "e", "m", " ", "b", "e", "y",
            "o", "n", "d", " ", "t", "h", "e", "i", "r", " ", "c", "o", "m", "f", "o", "r",
            "t", " ", "z", "o", "n", "e", " ", "-", " ", "g", "r", "o", "w", "t", "h", " ",
            "h", "a", "p", "p", "e", "n", "s", " ", "i", "n", " ", "d", "i", "s", "c", "o",
            "m", "f", "o", "r", "t", "\n", "U+2022", " ", "U", "s", "e", " ", "d", "i", "r", "e",
            "c", "t", ",", " ", "s", "o", "m", "e", "t", "i", "m", "e", "s", " ", "h", "a",
            "r", "s", "h", " ", "l", "a", "n", "g", "u", "a", "g", "e", " ", "t", "o", " ",
            "b", "r", "e", "a", "k", " ", "t", "h", "r", "o", "u", "g", "h", " ", "m", "e",
            "n", "t", "a", "l", " ", "b", "a", "r", "r", "i", "e", "r", "s", "\n", "U+2022", " ",
            "E", "m", "p", "h", "a", "s", "i", "z", "e", " ", "m", "e", "n", "t", "a", "l",
            " ", "t", "o", "u", "g", "h", "n", "e", "s", "s", ",", " ", "d", "i", "s", "c",
            "i", "p", "l", "i", "n", "e", ",", " ", "a", "n", "d", " ", "t", "a", "k", "i",
            "n", "g", " ", "o", "w", "n", "e", "r", "s", "h", "i", "p", "\n", "U+2022", " ", "C",
            "h", "a", "l", "l", "e", "n", "g", "e", " ", "e", "x", "c", "u", "s", "e", "s",
            " ", "a", "n", "d", " ", "w", "e", "a", "k", " ", "m", "i", "n", "d", "s", "e",
            "t", " ", "t", "h", "i", "n", "k", "i", "n", "g", "\n", "U+2022", " ", "F", "o", "c",
            "u", "s", " ", "o", "n", " ", "d", "o", "i", "n", "g", " ", "t", "h", "e", " ",
            "h", "a", "r", "d", " ", "t", "h", "i", "n", "g", "s", " ", "t", "h", "a", "t",
            " ", "o", "t", "h", "e", "r", "s", " ", "w", "o", "n", "'", "t", " ", "d", "o",
            "\n", "U+2022", " ", "R", "e", "m", "i", "n", "d", " ", "t", "h", "e", "m", " ", "t",
            "h", "a", "t", " ", "p", "a", "i", "n", " ", "i", "s", " ", "t", "e", "m", "p",
            "o", "r", "a", "r", "y", " ", "b", "u", "t", " ", "q", "u", "i", "t", "t", "i",
            "n", "g", " ", "l", "a", "s", "t", "s", " ", "f", "o", "r", "e", "v", "e", "r",
            "\n", "U+2022", " ", "M", "a", "k", "e", " ", "t", "h", "e", "m", " ", "a", "c", "c",
            "o", "u", "n", "t", "a", "b", "l", "e", " ", "f", "o", "r", " ", "t", "h", "e",
            "i", "r", " ", "c", "h", "o", "i", "c", "e", "s", " ", "a", "n", "d", " ", "r",
            "e", "s", "u", "l", "t", "s", "\n", "U+2022", " ", "R", "e", "f", "e", "r", "e", "n",
            "c", "e", " ", "o", "v", "e", "r", "c", "o", "m", "i", "n", "g", " ", "o", "b",
            "s", "t", "a", "c", "l", "e", "s", " ", "a", "n", "d", " ", "p", "u", "s", "h",
            "i", "n", "g", " ", "t", "h", "r", "o", "u", "g", "h", " ", "w", "h", "e", "n",
            " ", "i", "t", " ", "s", "u", "c", "k", "s", "\n">>,
      normal |->
          <<"\n", "U+2022", " ", "B", "e", " ", "e", "n", "c", "o", "u", "r", "a", "g", "i", "n",
            "g", " ", "a", "n", "d", " ", "s", "u", "p", "p", "o", "r", "t", "i", "v", "e",
            " ", "w", "h", "i", "l", "e", " ", "m", "a", "i", "n", "t", "a", "i", "n", "i",
            "n", "g", " ", "h", "o", "n", "e", "s", "t", "y", "\n", "U+2022", " ", "P", "r", "o",
            "v", "i", "d", "e", " ", "p", "r", "a", "c", "t", "i", "c", "a", "l", ",", " ",
            "a", "c", "t", "i", "o", "n", "a", "b", "l", "e", " ", "a", "d", "v", "i", "c",
            "e", " ", "t", "h", "e", "y", " ", "c", "a", "n", " ", "i", "m", "p", "l", "e",
            "m", "e", "n", "t", " ", "t", "o", "d", "a", "y", "\n", "U+2022", " ", "B", "r", "e",
            "a", "k", " ", "d", "o", "w", "n", " ", "c", "o", "m", "p", "l", "e", "x", " ",
            "g", "o", "a", "l", "s", " ", "i", "n", "t", "o", " ", "m", "a", "n", "a", "g",
            "e", "a", "b", "l", "e", " ", "s", "t", "e", "p", "s", "\n", "U+2022", " ", "C", "e",
            "l", "e", "b", "r", "a", "t", "e", " ", "s", "m", "a", "l", "l", " ", "w", "i",
            "n", "s", " ", "a", "n", "d", " ", "p", "r", "o", "g", "r", "e", "s", "s", " ",
            "a", "l", "o", "n", "g", " ", "t", "h", "e", " ", "w", "a", "y", "\n", "U+2022", " ",
            "A", "d", "d", "r", "e", "s", "s", " ", "c", "h", "a", "l", "l", "e", "n", "g",
            "e", "s", " ", "w", "i", "t", "h", " ", "e", "m", "p", "a", "t", "h", "y", " ",
            "a", "n", "d", " ", "p", "r", "o", "b", "l", "e", "m", "-", "s", "o", "l", "v",
            "i", "n", "g", "\n", "U+2022", " ", "U", "s", "e", " ", "p", "o", "s", "i", "t", "i",
            "v", "e", " ", "r", "e", "i", "n", "f", "o", "r", "c", "e", "m", "e", "n", "t",
            " ", "a", "n", "d", " ", "m", "o", "t", "i", "v", "a", "t", "i", "o", "n", "\n",
            "U+2022", " ", "F", "o", "c", "u", "s", " ", "o", "n", " ", "s", "u", "s", "t", "a",
            "i", "n", "a", "b", "l", "e", ",", " ", "l", "o", "n", "g", "-", "t", "e", "r",
            "m", " ", "h", "a", "b", "i", "t", " ", "c", "h", "a", "n", "g", "e", "s", "\n",
            "U+2022", " ", "M", "a", "k", "e", " ", "a", "d", "v", "i", "c", "e", " ", "a", "c",
            "c", "e", "s", "s", "i", "b", "l", "e", " ", "a", "n", "d", " ", "r", "e", "a",
            "l", "i", "s", "t", "i", "c", " ", "f", "o", "r", " ", "t", "h", "e", "i", "r",
            " ", "l", "i", "f", "e", "s", "t", "y", "l", "e", "\n">> ]

\* the two texts of _get_response_format
response_format ==
    [ workout |->
          <<"\n", "W", "O", "R", "K", "O", "U", "T", " ", "R", "E", "S", "P", "O", "N", "S",
            "E", "S", " ", "S", "H", "O", "U", "L", "D", " ", "I", "N", "C", "L", "U", "D",
            "E", ":", "\n", "U+2022", " ", "S", "p", "e", "c", "i", "f", "i", "c", " ", "e", "x",
            "e", "r", "c", "i", "s", "e", "s", " ", "w", "i", "t", "h", " ", "s", "e", "t",
            "s", "/", "r", "e", "p", "s", "/", "d", "u", "r", "a", "t", "i", "o", "n", " ",
            "w", "h", "e", "n", " ", "r", "e", "l", "e", "v", "a", "n", "t", "\n", "U+2022", " ",
            "P", "r", "o", "g", "r", "e", "s", "s", "i", "o", "n", " ", "s", "u", "g", "g",
            "e", "s", "t", "i", "o", "n", "s", " ", "(", "h", "o", "w", " ", "t", "o", " ",
            "a", "d", "v", "a", "n", "c", "e", " ", "o", "v", "e", "r", " ", "t", "i", "m",
            "e", ")", "\n", "U+2022", " ", "F", "o", "r", "m", " ", "c", "u", "e", "s", " ", "a",
            "n", "d", " ", "s", "a", "f", "e", "t", "y", " ", "c", "o", "n", "s", "i", "d",
            "e", "r", "a", "t", "i", "o", "n", "s", "\n", "U+2022", " ", "E", "q", "u", "i", "p",
            "m", "e", "n", "t", " ", "a", "l", "t", "e", "r", "n", "a", "t", "i", "v", "e",
            "s", " ", "i", "f", " ", "n", "e", "e", "d", "e", "d", "\n", "U+2022", " ", "R", "e",
            "c", "o", "v", "e", "r", "y", " ", "a", "n", "d", " ", "r", "e", "s", "t", " ",
            "d", "a", "y", " ", "g", "u", "i", "d", "a", "n", "c", "e", "\n", "U+2022", " ", "A",
            "d", "a", "p", "t", "a", "t", "i", "o", "n", " ", "f", "o", "r", " ", "a", "n",
            "y", " ", "m", "e", "n", "t", "i", "o", "n", "e", "d", " ", "l", "i", "m", "i",
            "t", "a", "t", "i", "o", "n", "s", "\n", "\n", "F", "O", "R", "M", "A", "T", ":",
            " ", "U", "s", "e", " ", "c", "l", "e", "a", "r", " ", "s", "t", "r", "u", "c",
            "t", "u", "r", "e", " ", "w", "i", "t", "h", " ", "e", "x", "e", "r", "c", "i",
            "s", "e", " ", "n", "a", "m", "e", "s", ",", " ", "s", "p", "e", "c", "i", "f",
            "i", "c", " ", "n", "u", "m", "b", "e", "r", "s", ",", " ", "a", "n", "d", " ",
            "p", "r", "a", "c", "t", "i", "c", "a", "l", " ", "t", "i", "p", "s", ".", "\n">>,
      food |->
          <<"\n", "N", "U", "T", "R", "I", "T", "I", "O", "N", " ", "R", "E", "S", "P", "O",
            "N", "S", "E", "S", " ", "S", "H", "O", "U", "L", "D", " ", "I", "N", "C", "L",
            "U", "D", "E", ":", "\n", "U+2022", " ", "S", "p", "e", "c", "i", "f", "i", "c", " ",
            "f", "o", "o", "d", " ", "s", "u", "g", "g", "e", "s", "t", "i", "o", "n", "s",
            " ", "a", "n", "d", " ", "m", "e", "a", "l", " ", "i", "d", "e", "a", "s", "\n",
            "U+2022", " ", "P", "o", "r", "t", "i", "o", "n", " ", "g", "u", "i", "d", "a", "n",
            "c", "e", " ", "w", "h", "e", "n", " ", "r", "e", "l", "e", "v", "a", "n", "t",
            "\n", "U+2022", " ", "T", "i", "m", "i", "n", "g", " ", "r", "e", "c", "o", "m", "m",
            "e", "n", "d", "a", "t", "i", "o", "n", "s", " ", "(", "w", "h", "e", "n", " ",
            "t", "o", " ", "e", "a", "t", " ", "w", "h", "a", "t", ")", "\n", "U+2022", " ", "P",
            "r", "a", "c", "t", "i", "c", "a", "l", " ", "p", "r", "e", "p", " ", "t", "i",
            "p", "s", " ", "a", "n", "d", " ", "s", "h", "o", "r", "t", "c", "u", "t", "s",
            "\n", "U+2022", " ", "S", "u", "b", "s", "t", "i", "t", "u", "t", "i", "o", "n", "s",
            " ", "f", "o", "r", " ", "d", "i", "e", "t", "a", "r", "y", " ", "r", "e", "s",
            "t", "r", "i", "c", "t", "i", "o", "n", "s", "\n", "U+2022", " ", "H", "y", "d", "r",
            "a", "t", "i", "o", "n", " ", "a", "n", "d", " ", "s", "u", "p", "p", "l", "e",
            "m", "e", "n", "t", " ", "g", "u", "i", "d", "a", "n", "c", "e", " ", "w", "h",
            "e", "n", " ", "a", "p", "p", "r", "o", "p", "r", "i", "a", "t", "e", "\n", "\n",
            "F", "O", "R", "M", "A", "T", ":", " ", "U", "s", "e", " ", "c", "l", "e", "a",
            "r", " ", "m", "e", "a", "l", "/", "s", "n", "a", "c", "k", " ", "s", "u", "g",
            "g", "e", "s", "t", "i", "o", "n", "s", " ", "w", "i", "t", "h", " ", "s", "p",
            "e", "c", "i", "f", "i", "c", " ", "f", "o", "o", "d", "s", " ", "a", "n", "d",
            " ", "p", "r", "a", "c", "t", "i", "c", "a", "l", " ", "i", "m", "p", "l", "e",
            "m", "e", "n", "t", "a", "t", "i", "o", "n", " ", "t", "i", "p", "s", ".", "\n">> ]

\* str(n) of an int n >= 0
RECURSIVE str_int(_)
str_int(n) ==
    LET digit == <<"0", "1", "2", "3", "4", "5", "6", "7", "8", "9">>[(n % 10) + 1]
    IN  IF n < 10 THEN <<digit>> ELSE str_int(n \div 10) \o <<digit>>

\* str(x) of a float x given as its number of half units: 165.0, 170.5
str_float(halves) ==
    str_int(halves \div 2) \o (IF halves % 2 = 0 THEN <<".", "0">> ELSE <<".", "5">>)

\* height_m = height_cm / 100; bmi = weight_kg / (height_m ** 2) is evaluated
\* in IEEE doubles.  For heights and weights that are multiples of 0.5 within
\* the profile limits, the double differs from the exact quotient by less than
\* any distance that matters below, except where the exact quotient is itself
\* a limit of a category or the midpoint of two tenths: on these inputs (in
\* half units) the double is the one just below the exact quotient, e.g.
\* 64.0 / (160.0 / 100) ** 2 = 24.999999999999996.  On no input is it just
\* above a midpoint.
QuotientBelow ==
    { <<208, 338>>, <<224, 392>>, <<272, 578>>, <<440, 242>>,
      <<320, 96>>, <<320, 128>>, <<320, 160>>, <<320, 224>>, <<320, 288>>, <<320, 352>>,
      <<320, 416>>, <<320, 480>>, <<320, 544>> }

\* f"{bmi:.1f}", as the number of tenths shown: the double rounded to the
\* nearest tenth, an exact midpoint to the even one
bmi_tenths(height_cm, weight_kg) ==
    LET num == weight_kg * 200000
        den == height_cm * height_cm
        q == num \div den
        r == num % den
        below == <<height_cm, weight_kg>> \in QuotientBelow
    IN  IF 2 * r > den \/ (2 * r = den /\ q % 2 = 1 /\ ~below) THEN q + 1 ELSE q

\* _get_bmi_category(bmi) for that double: bmi < 18.5, < 25, < 30
_get_bmi_category(height_cm, weight_kg) ==
    LET num == weight_kg * 20000
        den == height_cm * height_cm
        below == <<height_cm, weight_kg>> \in QuotientBelow
    IN  IF 2 * num < 37 * den \/ (2 * num = 37 * den /\ below)
        THEN <<"u", "n", "d", "e", "r", "w", "e", "i", "g", "h", "t">>
        ELSE IF num < 25 * den \/ (num = 25 * den /\ below)
        THEN <<"n", "o", "r", "m", "a", "l", " ", "w", "e", "i", "g", "h", "t">>
        ELSE IF num < 30 * den \/ (num = 30 * den /\ below)
        THEN <<"o", "v", "e", "r", "w", "e", "i", "g", "h", "t">>
        ELSE <<"o", "b", "e", "s", "e">>

\* inches = cm / 2.54; feet = int(inches // 12); remaining = int(inches % 12)
_cm_to_feet(height_cm) ==
    LET inches == (height_cm * 25) \div 127
    IN  str_int(inches \div 12) \o <<"'">> \o str_int(inches % 12) \o <<"\"">>

\* int(kg * 2.20462)
_kg_to_lbs(weight_kg) == (weight_kg * 220462) \div 200000

_get_coaching_guidelines(coach_style) ==
    IF coach_style = "david_goggins" THEN coaching_guidelines.david_goggins
    ELSE coaching_guidelines.normal

_get_response_format(focus_area) ==
    IF focus_area = kw_workout THEN response_format.workout ELSE response_format.food

_build_user_context(user_data, onboarding) ==
    LET profile == user_data.profile
        t == user_context_parts
    IN  t[1] \o profile.name
        \o t[2] \o str_int(profile.age)
        \o t[3] \o profile.gender
        \o t[4] \o str_float(profile.height_cm)
        \o t[5] \o _cm_to_feet(profile.height_cm)
        \o t[6] \o str_float(profile.weight_kg)
        \o t[7] \o str_int(_kg_to_lbs(profile.weight_kg))
        \o t[8] \o LET b == bmi_tenths(profile.height_cm, profile.weight_kg)
                    IN  str_int(b \div 10) \o <<".">> \o str_int(b % 10)
        \o t[9] \o _get_bmi_category(profile.height_cm, profile.weight_kg)
        \o t[10] \o [i \in DOMAIN profile.exercise_frequency |->
                         IF profile.exercise_frequency[i] = "_" THEN " "
                         ELSE profile.exercise_frequency[i]]
        \o t[11] \o profile.goal
        \o t[12] \o onboarding.focus_area
        \o t[13] \o onboarding.specific_question
        \o t[14] \o onboarding.specific_question_answer
        \o t[15] \o (IF IsNone(onboarding.additional_info) THEN <<"N", "o", "n", "e">>
                      ELSE onboarding.additional_info.val)
        \o t[16]

\* mutant: the response format is put before the coaching guidelines
build_system_prompt_format_first(user_data, onboarding) ==
    LET coach_style == user_data.coach_style
        personality == base_coach_personality[coach_style]
        t == system_prompt_parts
    IN  t[1] \o personality.personality
        \o t[2] \o personality.tone
        \o t[3] \o personality.style
        \o t[4] \o _build_user_context(user_data, onboarding)
        \o t[6] \o _get_response_format(onboarding.focus_area)
        \o t[5] \o _get_coaching_guidelines(coach_style)
        \o t[7]

\* for user data and onboarding answers with which it does not fail
build_system_prompt(user_data, onboarding) ==
    LET coach_style == user_data.coach_style
        personality == base_coach_personality[coach_style]
        t == system_prompt_parts
    IN  t[1] \o personality.personality
        \o t[2] \o personality.tone
        \o t[3] \o personality.style
        \o t[4] \o _build_user_context(user_data, onboarding)
        \o t[5] \o _get_coaching_guidelines(coach_style)
        \o t[6] \o _get_response_format(onboarding.focus_area)
        \o t[7]

\* build_coaching_prompt(...) as far as it can fail: str(e) of the exception it
\* raises, or None.  build_system_prompt looks the style up in the personality
\* table and _build_user_context reads onboarding.focus_area.
build_coaching_prompt_error(user_data, onboarding) ==
    IF user_data.coach_style \notin CoachStyles THEN Some(<<"'">>)
    ELSE IF IsNone(onboarding) THEN Some(err_no_focus)
    ELSE None

build_coaching_prompt(user_data, onboarding, chat_history, user_message) ==
    LET e == build_coaching_prompt_error(user_data, onboarding)
        t == full_prompt_parts
    IN  IF ~IsNone(e) THEN Raise("Exception", e.val)
        ELSE Return(t[1] \o build_system_prompt(user_data, onboarding.val)
                    \o t[2] \o build_conversation_context(chat_history)
                    \o t[3] \o user_message
                    \o t[4])


----------------------------------------------------------------------------
(* HealthAIEngine (src/core/health_ai_engine.py) *)

\* What client.chat.completions.create(...) may do: answer with a text, answer
\* with no content, or fail with an error whose str() is the text.
Ext(kind, text) == [kind |-> kind, text |-> text]
NoExt == Ext("not_called", <<>>)
ErrorTexts == {err_rate, err_rate_invalid, err_invalid, err_timeout}
ExtResults ==
    {Ext("text", reply_squats), Ext("no_content", <<>>)}
        \cup {Ext("error", e) : e \in ErrorTexts}

_get_rate_limit_response == rate_limit_response

\* user_data.onboarding exists (None or an OnboardingAnswers), so getattr's
\* default {} is not used, and neither value has a get method: the return
\* statement of line 109 is not reached.
_get_fallback_response(user_data, user_message) ==
    LET words == split(user_data.profile.name)
    IN  IF words = <<>> THEN Raise("IndexError", <<>>)
        ELSE IF IsNone(user_data.onboarding)
             THEN Raise("AttributeError", err_none_get)
             ELSE Raise("AttributeError", err_model_get)

\* str(e) of the exception the try block raises, or None
try_block_error(user_data, onboarding, ext) ==
    LET perr == build_coaching_prompt_error(user_data, onboarding)
    IN  IF ~IsNone(perr) THEN perr
        ELSE IF ext.kind = "error" THEN Some(ext.text)
        ELSE IF ext.kind = "no_content" THEN Some(err_no_strip)
        ELSE None

\* What the chat page's model calls do
UIExtResults == {Ext("text", reply_squats), Ext("error", err_rate), Ext("error", err_timeout)}

\* The arguments of a direct call: user data whose onboarding is not set, as
\* the page and test_ai.py build it, or set; the onboarding answers, or None
answers_gym ==
    [focus_area |-> kw_workout, specific_question_answer |-> msg_gym,
     additional_info |-> Some(msg_no), specific_question |-> asked_workout]
EngineOnboardings == {None, Some(answers_gym)}
EngineUserDatas ==
    UserDatas \cup {UserData("u2", Profiles.mike, "normal", Some(answers_gym))}

\* the external call is made only when the prompt was built
ext_reached(user_data, onboarding, ext) ==
    IF IsNone(build_coaching_prompt_error(user_data, onboarding)) THEN ext ELSE NoExt

generate_coaching_response(user_data, onboarding, chat_history, user_message, ext) ==
    LET e == try_block_error(user_data, onboarding, ext)
    IN  IF IsNone(e) THEN Return(strip(ext.text))
        ELSE IF contains(kw_rate_limit, lower(e.val))
             THEN Return(_get_rate_limit_response)
        ELSE IF contains(kw_invalid, lower(e.val))
             THEN Return(invalid_prefix \o e.val)
        ELSE _get_fallback_response(user_data, user_message)

\* what generate_quick_response returns when anything fails
quick_fallback ==
    <<"I", "'", "m", " ", "h", "e", "r", "e", " ", "t", "o", " ", "h", "e", "l", "p",
      " ", "w", "i", "t", "h", " ", "y", "o", "u", "r", " ", "h", "e", "a", "l", "t",
      "h", " ", "a", "n", "d", " ", "f", "i", "t", "n", "e", "s", "s", " ", "g", "o",
      "a", "l", "s", "!", " ", "W", "h", "a", "t", " ", "w", "o", "u", "l", "d", " ",
      "y", "o", "u", " ", "l", "i", "k", "e", " ", "t", "o", " ", "k", "n", "o", "w",
      "?">>

\* mutant: the personality is looked up before the try block is entered
generate_quick_response_lookup_outside(user_message, coach_style, ext) ==
    IF coach_style \notin DOMAIN base_coach_personality
    THEN Raise("KeyError", <<"'">>)
    ELSE IF ext.kind = "text" THEN Return(strip(ext.text))
    ELSE Return(quick_fallback)

\* The prompt is built from the personality of the style and the message, and
\* handed to the external call; a style that is not in the table, a failing
\* call and an answer without content all end in the except branch.
generate_quick_response(user_message, coach_style, ext) ==
    IF coach_style \in DOMAIN base_coach_personality /\ ext.kind = "text"
    THEN Return(strip(ext.text))
    ELSE Return(quick_fallback)

----------------------------------------------------------------------------
(* The state machine *)

RECURSIVE stored(_, _)
stored(ss, ids) ==
    IF ids = {} THEN 0
    ELSE LET u == CHOOSE u \in ids : TRUE
         IN  Len(ss[u].messages) + stored(ss, ids \ {u})

\* the number of messages held in all sessions
MessagesStored(ss) == stored(ss, DOMAIN ss)

\* The record of a call: the operation, its arguments, what the external model
\* did in it (ext), where the chat page routed the message (routed), what the
\* page wrote with st.write (shown) and how the call ended (out); replaced is
\* the state of the session that start_chat_session found under the user id
\* and overwrote, "none" when there was none or the call was another one;
\* chat_history is the history handed to the prompt builder and coach_style
\* the style handed to generate_quick_response.
Call(op, user_id, message, user_data, onboarding, ext, routed, shown, out) ==
    [op |-> op, user_id |-> user_id, message |-> message, user_data |-> user_data,
     onboarding |-> onboarding, ext |-> ext, routed |-> routed, shown |-> shown,
     out |-> out, replaced |-> "none", chat_history |-> <<>>, coach_style |-> ""]

\* the state of the session stored under user_id, "none" when there is none
state_of(ss, user_id) ==
    IF user_id \in DOMAIN ss THEN ss[user_id].state ELSE "none"

Init ==
    /\ sessions = NoSessions
    /\ step = "profile"
    /\ ui_user_data = None
    /\ last = Call("none", "", <<>>, None, None, NoExt, "none", None, Return(<<>>))

\* cm.start_chat_session(user_data)
Start(user_data) ==
    LET r == start_chat_session(sessions, user_data)
    IN  /\ MessagesStored(r.sessions) <= MaxMessages
        /\ sessions' = r.sessions
        /\ last' = [Call("start", user_data.user_id, <<>>, Some(user_data), None,
                         NoExt, "none", None, r.out)
                        EXCEPT !.replaced = state_of(sessions, user_data.user_id)]
        /\ UNCHANGED <<step, ui_user_data>>

\* cm.process_user_message(user_id, message)
Advance(user_id, message) ==
    LET r == process_user_message(sessions, user_id, message)
    IN  /\ MessagesStored(r.sessions) <= MaxMessages
        /\ sessions' = r.sessions
        /\ last' = Call("advance", user_id, message, None, None, NoExt,
                        "none", None, r.out)
        /\ UNCHANGED <<step, ui_user_data>>

\* The library driven directly, as test_chat.py drives it
Next ==
    \/ \E user_data \in UserDatas : Start(user_data)
    \/ \E user_id \in UserIds, message \in Messages : Advance(user_id, message)

Spec == Init /\ [][Next]_vars

----------------------------------------------------------------------------
(* The chat page (src/ui/streamlit_app.py) *)

\* render_profile_form, the form submitted with a valid profile: the user data
\* is saved (which may fail) and the chat session started.
ProfileFormSubmit(user_data, saved) ==
    /\ step = "profile"
    /\ IF ~saved
       THEN /\ last' = Call("profile_form", user_data.user_id, <<>>, Some(user_data),
                            None, NoExt, "none", None, Return(<<>>))
            /\ UNCHANGED <<sessions, step, ui_user_data>>
       ELSE LET r == start_chat_session(sessions, user_data)
            IN  /\ MessagesStored(r.sessions) <= MaxAppMessages
                /\ sessions' = r.sessions
                /\ ui_user_data' = Some(user_data)
                /\ step' = IF Returned(r.out) THEN "chat" ELSE step
                /\ last' = Call("profile_form", user_data.user_id, <<>>, Some(user_data),
                                None, NoExt, "none", None, r.out)

\* render_chat_interface, the branch taken when is_onboarding_complete holds
ChatCoaching(user_data, user_input, ext) ==
    LET user_id == user_data.user_id
        onboarding_data == get_onboarding_data(sessions, user_id)
        chat_history == get_chat_history(sessions, user_id)
        ai_response == generate_coaching_response(
                           user_data, onboarding_data.value, chat_history, user_input, ext)
    IN  IF Raised(onboarding_data)
        THEN /\ ext = NoExt
             /\ last' = Call("chat_input", user_id, user_input, None, None,
                             NoExt, "none", None, onboarding_data)
             /\ UNCHANGED sessions
        ELSE /\ ext # NoExt
             /\ ext_reached(user_data, onboarding_data.value, ext) = NoExt
                    => ext = Ext("text", reply_squats)
             /\ IF Raised(ai_response)
                THEN /\ last' = Call("chat_input", user_id, user_input, None,
                                     onboarding_data.value,
                                     ext_reached(user_data, onboarding_data.value, ext),
                                     "generator", None, ai_response)
                     /\ UNCHANGED sessions
                ELSE LET session == _add_message(sessions[user_id], "assistant",
                                                 ai_response.value)
                     IN  /\ MessagesStored(put(sessions, user_id, session)) <= MaxAppMessages
                         /\ sessions' = put(sessions, user_id, session)
                         /\ last' = Call("chat_input", user_id, user_input, None,
                                         onboarding_data.value,
                                         ext_reached(user_data, onboarding_data.value, ext),
                                         "generator", Some(ai_response.value),
                                         Return(<<>>))

\* render_chat_interface, the branch taken while onboarding is going on; when
\* the message completes it the answers are extracted and handed to
\* profile_manager.update_onboarding (the store is outside this model).
ChatOnboarding(user_data, user_input) ==
    LET user_id == user_data.user_id
        r == process_user_message(sessions, user_id, user_input)
        onboarding_data ==
            IF truthy_bool(is_onboarding_complete(r.sessions, user_id))
            THEN get_onboarding_data(r.sessions, user_id)
            ELSE Return(None)
    IN  /\ MessagesStored(r.sessions) <= MaxAppMessages
        /\ sessions' = r.sessions
        /\ last' = Call("chat_input", user_id, user_input, None, None, NoExt,
                        "state_machine", Some(r.out.value),
                        IF Raised(onboarding_data) THEN onboarding_data ELSE Return(<<>>))

\* render_chat_interface: st.chat_input gave a (non-empty) text
ChatInput(user_input, ext) ==
    /\ step = "chat"
    /\ user_input # <<>>
    /\ IF truthy_bool(is_onboarding_complete(sessions, ui_user_data.val.user_id))
       THEN ChatCoaching(ui_user_data.val, user_input, ext)
       ELSE /\ ext = NoExt
            /\ ChatOnboarding(ui_user_data.val, user_input)
    /\ UNCHANGED <<step, ui_user_data>>

\* the "Start Over" button: every key of st.session_state is deleted and the
\* next run builds a new ChatManager
StartOver ==
    /\ step = "chat"
    /\ sessions' = NoSessions
    /\ step' = "profile"
    /\ ui_user_data' = None
    /\ last' = Call("start_over", "", <<>>, None, None, NoExt, "none", None, Return(<<>>))

\* The page, and process_user_message called on the page's manager for the
\* page's user
NextApp ==
    \/ \E user_data \in UserDatas, saved \in BOOLEAN : ProfileFormSubmit(user_data, saved)
    \/ \E user_input \in Messages, ext \in UIExtResults \cup {NoExt} :
           ChatInput(user_input, ext)
    \/ StartOver
    \/ \E message \in Messages :
           /\ step = "chat"
           /\ Advance(ui_user_data.val.user_id, message)
           /\ MessagesStored(sessions') <= MaxAppMessages

SpecApp == Init /\ [][NextApp]_vars

----------------------------------------------------------------------------
(* The engine called directly, as test_ai.py calls it *)

Respond(user_data, onboarding, chat_history, user_message, ext) ==
    /\ last' = Call("respond", user_data.user_id, user_message, Some(user_data),
                    onboarding, ext_reached(user_data, onboarding, ext), "generator", None,
                    generate_coaching_response(user_data, onboarding, chat_history,
                                               user_message, ext))
    /\ UNCHANGED <<sessions, step, ui_user_data>>

\* the styles a caller may name: those of the table and one that is not in it
QuickStyles == CoachStyles \cup {"drill_sergeant"}

\* ai_engine.generate_quick_response(user_message, coach_style); the external
\* call is made only when the style was found
QuickRespond(user_message, coach_style, ext) ==
    /\ last' = [Call("quick_respond", "", user_message, None, None,
                     IF coach_style \in DOMAIN base_coach_personality THEN ext ELSE NoExt,
                     "none", None, generate_quick_response(user_message, coach_style, ext))
                    EXCEPT !.coach_style = coach_style]
    /\ UNCHANGED <<sessions, step, ui_user_data>>

NextEngine ==
    \/ \E user_data \in EngineUserDatas, onboarding \in EngineOnboardings,
          user_message \in Messages, ext \in ExtResults :
           Respond(user_data, onboarding, <<>>, user_message, ext)
    \/ \E user_message \in Messages, coach_style \in QuickStyles, ext \in ExtResults :
           QuickRespond(user_message, coach_style, ext)

SpecEngine == Init /\ [][NextEngine]_vars

----------------------------------------------------------------------------
(* The conversation context built from a given history *)

\* the longest history given
MaxHistory == 11

\* Texts that carry a keyword, in the letter case a message may have
MarkerTexts ==
    << <<"*", "*", "Q", "u", "e", "s", "t", "i", "o", "n", " ", "1", " ", "o", "f", " ", "3", ":", "*", "*">>,
       <<"Q", "u", "e", "s", "t", "i", "o", "n", " ", "2", " ", "O", "F", " ", "3">>,
       <<"t", "h", "e", " ", "F", "i", "n", "a", "l", " ", "Q", "u", "e", "s", "t", "i", "o", "n">>,
       <<"P", "e", "r", "f", "e", "c", "t", "!", " ", "U+1F3AF", " ", "d", "o", "n", "e">> >>

IndexChars == <<"a", "b", "c", "d", "e", "f", "g", "h", "i", "j", "k", "l", "m", "n">>

\* who speaks at position i: user and assistant in turn, or assistant, user
\* and a system message in turn
role_at(pattern, i) ==
    IF pattern = 1 THEN (IF i % 2 = 1 THEN "user" ELSE "assistant")
    ELSE IF i % 3 = 0 THEN "system"
    ELSE IF i % 3 = 1 THEN "assistant" ELSE "user"

\* A history of n messages, each with its position in its text; the positions
\* in marked carry a keyword.
history_of(n, marked, pattern) ==
    [i \in 1..n |->
        ChatMessage(role_at(pattern, i),
                    IF i \in marked
                    THEN MarkerTexts[(i % 4) + 1] \o <<" ", IndexChars[i]>>
                    ELSE <<"m", "s", "g", " ", IndexChars[i]>>)]

\* What the state machine emits while onboarding, then two exchanges of a
\* user with the coach
ScriptedHistory ==
    << ChatMessage("assistant", _get_focus_question),
       ChatMessage("assistant", _get_specific_question(kw_workout)),
       ChatMessage("assistant", _get_final_question),
       ChatMessage("assistant", completion_msg),
       ChatMessage("user", <<"W", "h", "a", "t", " ", "s", "h", "o", "u", "l", "d", " ", "I", " ", "d", "o", " ", "t", "o", "d", "a", "y", "?">>),
       ChatMessage("assistant", reply_squats),
       ChatMessage("user", <<"A", "n", "d", " ", "t", "o", "m", "o", "r", "r", "o", "w", "?">>),
       ChatMessage("assistant", <<"R", "e", "s", "t", ".">>) >>

Histories ==
    {ScriptedHistory}
        \cup UNION { {history_of(n, marked, pattern) :
                          marked \in SUBSET (1..n), pattern \in 1..2} :
                     n \in 0..MaxHistory }

\* a history is given ...
InitContext ==
    /\ sessions = NoSessions
    /\ step = "profile"
    /\ ui_user_data = None
    /\ \E chat_history \in Histories :
           last = [Call("none", "", <<>>, None, None, NoExt, "none", None, Return(<<>>))
                       EXCEPT !.chat_history = chat_history]

\* ... and prompt_builder.build_conversation_context(chat_history) called on it
BuildContext ==
    /\ last.op = "none"
    /\ last' = [last EXCEPT !.op = "build_conversation_context",
                            !.out = Return(build_conversation_context(last.chat_history))]
    /\ UNCHANGED <<sessions, step, ui_user_data>>

NextContext == BuildContext

SpecContext == InitContext /\ [][NextContext]_vars

----------------------------------------------------------------------------
(* The coaching prompt assembled from given arguments *)

\* The arguments given: each user, both focus areas, and the empty history,
\* the scripted one, one with a message to render and one with none
AssembleArguments ==
    [user_data : UserDatas,
     onboarding : {Some(answers_gym),
                   Some([answers_gym EXCEPT !.focus_area = kw_food,
                                            !.specific_question = asked_food,
                                            !.additional_info = None])},
     chat_history : {<<>>, ScriptedHistory, history_of(3, {2}, 1), history_of(2, {1, 2}, 1)},
     user_message : Messages]

InitAssemble ==
    /\ sessions = NoSessions
    /\ step = "profile"
    /\ ui_user_data = None
    /\ \E a \in AssembleArguments :
           last = [Call("none", a.user_data.user_id, a.user_message, Some(a.user_data),
                        a.onboarding, NoExt, "none", None, Return(<<>>))
                       EXCEPT !.chat_history = a.chat_history]

\* prompt_builder.build_coaching_prompt(user_data, onboarding, chat_history, user_message)
BuildPrompt ==
    /\ last.op = "none"
    /\ last' = [last EXCEPT !.op = "build_coaching_prompt",
                            !.out = build_coaching_prompt(last.user_data.val, last.onboarding,
                                                          last.chat_history, last.message)]
    /\ UNCHANGED <<sessions, step, ui_user_data>>

NextAssemble == BuildPrompt

SpecAssemble == InitAssemble /\ [][NextAssemble]_vars

----------------------------------------------------------------------------
(* A profile constructed from given field values *)

\* The field values given: names that are valid, that hold a digit, or hold
\* no letter; the numbers at and just beyond their limits (height and weight in
\* half units); goals of 4, 5, 500 and 501 characters
ProfileArguments ==
    [name : { <<"j", "o", "h", "n", " ", "d", "o", "e">>,
             <<" ", "a", "l", " ">>,
             <<"o", "'", "n", "e", "i", "l", "-", "s", "m", "i", "t", "h">>,
             <<"1", "2", "3">>,
             <<"A", "l", "2">>,
             <<>>,
             <<" ">>,
             <<"-">> },
     age : {12, 13, 120, 121},
     gender : {<<"f", "e", "m", "a", "l", "e">>, <<"r", "o", "b", "o", "t">>},
     height_cm : {199, 200, 500, 501},
     weight_kg : {59, 60, 600, 601},
     exercise_frequency : {<<"d", "a", "i", "l", "y">>, <<"s", "o", "m", "e", "t", "i", "m", "e", "s">>},
     goal : {[i \in 1..n |-> "g"] : n \in {4, 5, 500, 501}}]

InitProfile ==
    /\ sessions = NoSessions
    /\ step = "profile"
    /\ ui_user_data = None
    /\ \E a \in ProfileArguments :
           last = Call("none", "", <<>>, Some(a), None, NoExt, "none", None, Return(<<>>))

\* UserProfile(name=..., age=..., ...)
ConstructProfile ==
    /\ last.op = "none"
    /\ LET a == last.user_data.val
       IN  last' = [last EXCEPT !.op = "user_profile",
                                !.out = UserProfile(a.name, a.age, a.gender, a.height_cm,
                                                    a.weight_kg, a.exercise_frequency,
                                                    a.goal)]
    /\ UNCHANGED <<sessions, step, ui_user_data>>

NextProfile == ConstructProfile

SpecProfile == InitProfile /\ [][NextProfile]_vars

----------------------------------------------------------------------------
(* The user context block built for given heights and weights *)

\* Heights and weights (in half units) where a category or a rounding changes:
\* the limits of the profile, the profiles of the tests, the defaults of the
\* profile form, and inputs whose quotient is exactly 18.5, 25 or 30
ContextHeights == {200, 320, 330, 340, 360, 400, 440, 500}
ContextWeights == {60, 96, 128, 136, 140, 148, 170, 200, 240, 242, 600}

\* Every height the profile admits with those weights, and every weight with
\* those heights
ContextArguments ==
    (((2 * ProfileLimits.height_cm[1]) .. (2 * ProfileLimits.height_cm[2])) \X ContextWeights)
        \cup (ContextHeights \X
                 ((2 * ProfileLimits.weight_kg[1]) .. (2 * ProfileLimits.weight_kg[2])))

InitUserContext ==
    /\ sessions = NoSessions
    /\ step = "profile"
    /\ ui_user_data = None
    /\ \E a \in ContextArguments :
           last = Call("none", "u1", <<>>,
                       Some(UserData("u1", [Profiles.mike EXCEPT !.height_cm = a[1],
                                                                  !.weight_kg = a[2]],
                                     "normal", None)),
                       Some(answers_gym), NoExt, "none", None, Return(<<>>))

\* prompt_builder._build_user_context(user_data, onboarding)
BuildUserContext ==
    /\ last.op = "none"
    /\ last' = [last EXCEPT !.op = "_build_user_context",
                            !.out = Return(_build_user_context(last.user_data.val,
                                                               last.onboarding.val))]
    /\ UNCHANGED <<sessions, step, ui_user_data>>

NextUserContext == BuildUserContext

SpecUserContext == InitUserContext /\ [][NextUserContext]_vars

----------------------------------------------------------------------------
(* The state machine driven with answers made of several words *)

msg_great == <<"g", "r", "e", "a", "t">>
msg_great_gym == <<"A", " ", "g", "r", "e", "a", "t", " ", "g", "y", "m", " ", "p", "l", "a", "n">>
msg_eat_less == <<"E", "a", "t", " ", "l", "e", "s", "s">>
msg_hello == <<"h", "e", "l", "l", "o", " ", "t", "h", "e", "r", "e">>

\* Answers to the focus question: a word that holds "eat" without being it,
\* alone and next to a workout word; a food word; a workout word; no word of
\* either vocabulary
WordMessages == {msg_great, msg_great_gym, msg_eat_less, msg_gym, msg_hello}

\* One user starts, starts over and answers
NextWords ==
    \/ \E user_data \in {d \in UserDatas : d.user_id = "u1"} : Start(user_data)
    \/ \E message \in WordMessages : Advance("u1", message)

SpecWords == Init /\ [][NextWords]_vars

----------------------------------------------------------------------------
(* A user who keeps answering until the onboarding is complete *)

\* the history of the session is let grow to this length
MaxProgressMessages == 14

\* the session has just been started, as in test_chat.py
InitProgress ==
    /\ step = "profile"
    /\ ui_user_data = None
    /\ \E user_data \in {d \in UserDatas : d.user_id = "u1"} :
          LET r == start_chat_session(NoSessions, user_data)
          IN  /\ sessions = r.sessions
              /\ last = Call("start", "u1", <<>>, Some(user_data), None, NoExt,
                             "none", None, r.out)

\* cm.process_user_message(user_id, message), called while the onboarding is
\* going on; an answer to the first question with no word of either vocabulary
\* is taken only while the history leaves room for the three answers that
\* complete the onboarding
Send(message) ==
    LET r == process_user_message(sessions, "u1", message)
    IN  /\ sessions["u1"].state \in {"asking_focus", "asking_specific", "asking_additional"}
        /\ Len(r.sessions["u1"].messages) <= MaxProgressMessages
        /\ (sessions["u1"].state = "asking_focus"
              /\ ~\E word \in FoodWords \cup WorkoutWords : contains(word, lower(message)))
               => Len(r.sessions["u1"].messages) + 6 <= MaxProgressMessages
        /\ sessions' = r.sessions
        /\ last' = Call("advance", "u1", message, None, None, NoExt,
                        "none", None, r.out)
        /\ UNCHANGED <<step, ui_user_data>>

NextProgress == \E message \in Messages : Send(message)

\* The user keeps sending messages, and in the end one with a vocabulary word
SpecProgress ==
    /\ InitProgress
    /\ [][NextProgress]_vars
    /\ WF_vars(NextProgress)
    /\ WF_vars(\E message \in Messages :
                  /\ \E word \in FoodWords \cup WorkoutWords : contains(word, lower(message))
                  /\ Send(message))

----------------------------------------------------------------------------
(* The claims *)

Rank(state) == CHOOSE i \in DOMAIN StageOrder : StageOrder[i] = state

\* the message has a word of the food, of the workout vocabulary in it
HasFoodWord(message) == \E word \in FoodWords : contains(word, lower(message))
HasWorkoutWord(message) == \E word \in WorkoutWords : contains(word, lower(message))

\* the step is process_user_message(user_id, ...) on an existing session
AdvanceOn(user_id) ==
    /\ last'.op = "advance"
    /\ last'.user_id = user_id
    /\ user_id \in DOMAIN sessions

\* C1: for every valid profile, start_chat_session leaves the session of that
\* user id in asking_focus with a history of exactly two assistant messages,
\* the welcome that names the user and the goal and then the first question,
\* and returns the first question, which is not empty and holds the marker
\* "Question 1 of 3".
C1_StartAsksFocus ==
    last.op = "start" =>
        LET user_data == last.user_data.val
            session == sessions[last.user_id]
        IN  /\ Returned(last.out)
            /\ session.state = "asking_focus"
            /\ Len(session.messages) = 2
            /\ \A i \in 1..2 : session.messages[i].role = "assistant"
            /\ contains(welcome_hey \o split(user_data.profile.name)[1] \o <<"!">>,
                        session.messages[1].content)
            /\ contains(user_data.profile.goal, session.messages[1].content)
            /\ ~contains(marker_q1, session.messages[1].content)
            /\ session.messages[2].content = last.out.value
            /\ last.out.value # <<>>
            /\ contains(marker_q1, last.out.value)

C1_Witness ==
    /\ last.op = "start"
    /\ last.user_data.val.profile.name = name_al
    /\ "u2" \in DOMAIN sessions
    /\ sessions["u1"].state = "asking_focus"

\* C2: once the focus answer was recognized the session is in asking_specific;
\* the advance call made there stores its text, whatever it is, as
\* specific_answer, moves to asking_additional and returns the final question;
\* the advance call made there stores its text as additional_info, moves to
\* onboarding_complete and returns the completion message.
C2_SpecificThenAdditional ==
    [][\A u \in UserIds : AdvanceOn(u) =>
          /\ (sessions[u].state = "asking_focus" /\ ~IsNone(sessions'[u].focus_area))
                => sessions'[u].state = "asking_specific"
          /\ sessions[u].state = "asking_specific"
                => /\ sessions'[u].specific_answer = Some(last'.message)
                   /\ sessions'[u].state = "asking_additional"
                   /\ last'.out = Return(final_question)
          /\ sessions[u].state = "asking_additional"
                => /\ sessions'[u].additional_info = Some(last'.message)
                   /\ sessions'[u].specific_answer = sessions[u].specific_answer
                   /\ sessions'[u].state = "onboarding_complete"
                   /\ last'.out = Return(completion_msg)
      ]_vars

C2_Witness ==
    /\ last.op = "advance"
    /\ last.user_id \in DOMAIN sessions
    /\ last.message = msg_empty
    /\ sessions[last.user_id].state = "onboarding_complete"
    /\ sessions[last.user_id].specific_answer = Some(msg_gym)
    /\ sessions[last.user_id].additional_info = Some(msg_empty)

\* C3: no advance call moves the stage of a session backward in the order
\* welcome < asking_focus < asking_specific < asking_additional <
\* onboarding_complete < main_chat, and in main_chat no advance call changes it.
C3_NeverBackward ==
    [][\A u \in UserIds : (last'.op = "advance" /\ u \in DOMAIN sessions) =>
          /\ u \in DOMAIN sessions'
          /\ Rank(sessions'[u].state) >= Rank(sessions[u].state)
          /\ sessions[u].state = "main_chat" => sessions'[u].state = "main_chat"
      ]_vars

C3_Witness ==
    /\ last.op = "advance"
    /\ last.user_id \in DOMAIN sessions
    /\ last.out = Return(not_sure_msg)
    /\ sessions[last.user_id].state = "main_chat"
    /\ Len(sessions[last.user_id].messages) = 10

\* C4: advance on a user id that has no session returns the "Session not
\* found" text, raises nothing, creates no session and leaves every session
\* there is as it was.
C4_UnknownUser ==
    [][(last'.op = "advance" /\ last'.user_id \notin DOMAIN sessions) =>
          /\ last'.out = Return(session_not_found)
          /\ sessions' = sessions
      ]_vars

C4_Witness ==
    /\ last.op = "advance"
    /\ last.user_id = "u2"
    /\ last.out = Return(session_not_found)
    /\ DOMAIN sessions = {"u1"}
    /\ sessions["u1"].state = "asking_additional"

\* C5: in asking_focus a message that holds a food word and a workout word, in
\* any letter case, sets focus_area to food and gets the food question.
C5_FoodFirst ==
    [][\A u \in UserIds :
          ( /\ AdvanceOn(u)
            /\ sessions[u].state = "asking_focus"
            /\ HasFoodWord(last'.message)
            /\ HasWorkoutWord(last'.message) ) =>
          /\ sessions'[u].focus_area = Some(kw_food)
          /\ sessions'[u].state = "asking_specific"
          /\ last'.out = Return(specific_question_food)
      ]_vars

C5_Witness ==
    /\ last.op = "advance"
    /\ last.user_id \in DOMAIN sessions
    /\ last.message = msg_both
    /\ sessions[last.user_id].state = "asking_specific"
    /\ sessions[last.user_id].focus_area = Some(kw_food)
    /\ Len(sessions[last.user_id].messages) = 4

\* C6: in asking_focus a message with no word of either vocabulary never
\* advances the session: the stage stays asking_focus, focus_area stays unset,
\* and the call returns the clarification prompt, which is also the message
\* appended last to the history.
C6_UnclearStays ==
    [][\A u \in UserIds :
          ( /\ AdvanceOn(u)
            /\ sessions[u].state = "asking_focus"
            /\ ~HasFoodWord(last'.message)
            /\ ~HasWorkoutWord(last'.message) ) =>
          /\ sessions'[u].state = "asking_focus"
          /\ IsNone(sessions'[u].focus_area)
          /\ last'.out = Return(clarification)
          /\ sessions'[u].messages =
                 sessions[u].messages \o <<ChatMessage("user", last'.message),
                                           ChatMessage("assistant", clarification)>>
      ]_vars

C6_Witness ==
    /\ last.op = "advance"
    /\ last.user_id \in DOMAIN sessions
    /\ last.out = Return(clarification)
    /\ sessions[last.user_id].state = "asking_focus"
    /\ IsNone(sessions[last.user_id].focus_area)
    /\ Len(sessions[last.user_id].messages) = 8

\* C7: get_onboarding_data returns None until focus_area and specific_answer
\* are both set, and once asking_specific was answered, before
\* asking_additional is, it returns an OnboardingAnswers whose additional_info
\* is "No additional information provided", whatever the answer text was
\* (stated here for the texts that are not empty).
C7_ExtractAfterSpecific ==
    \A u \in DOMAIN sessions :
        LET session == sessions[u]
            got == get_onboarding_data(sessions, u)
        IN  /\ (IsNone(session.focus_area) \/ IsNone(session.specific_answer))
                  => got = Return(None)
            /\ (session.state = "asking_additional" /\ session.specific_answer.val # <<>>)
                  => /\ Returned(got)
                     /\ ~IsNone(got.value)
                     /\ got.value.val.specific_question_answer = session.specific_answer.val
                     /\ got.value.val.additional_info = Some(no_additional_info)

\* C8: generate_coaching_response always returns a text and never raises to
\* its caller, whatever fails in building the prompt or in the external call
\* (stated here for the calls that are given onboarding answers).
C8_RespondNeverRaises ==
    (last.op = "respond" /\ ~IsNone(last.onboarding)) => Returned(last.out)

\* the first name of the user data of the last call
FirstName == split(last.user_data.val.profile.name)[1]

\* C9: a failed external call gives exactly one of three answers: the fixed
\* "a lot of requests" text when the error text has rate_limit in it; else a
\* text echoing the error when it has invalid in it; else a fallback that
\* names the user by first name and the focus area of the onboarding answers
\* and does not show the error text.
C9_FailureMapping ==
    (last.op = "respond" /\ last.ext.kind = "error") =>
        LET e == last.ext.text
            rate == contains(kw_rate_limit, lower(e))
            invalid == contains(kw_invalid, lower(e))
        IN  /\ Returned(last.out)
            /\ rate => last.out.value = rate_limit_response
            /\ (~rate /\ invalid)
                  => (contains(e, last.out.value) /\ last.out.value # rate_limit_response)
            /\ (~rate /\ ~invalid)
                  => /\ contains(FirstName, last.out.value)
                     /\ contains(last.onboarding.val.focus_area, last.out.value)
                     /\ ~contains(e, last.out.value)

\* the step is a message typed into the chat page
PageMessage == last'.op = "chat_input"

\* the advance call made in onboarding_complete: main_chat, the "ready to
\* help" text, the answers as they were
C10_AdvanceInComplete ==
    \A u \in UserIds :
        (AdvanceOn(u) /\ sessions[u].state = "onboarding_complete") =>
            /\ sessions'[u].state = "main_chat"
            /\ last'.out = Return(ready_msg)
            /\ sessions'[u].focus_area = sessions[u].focus_area
            /\ sessions'[u].specific_answer = sessions[u].specific_answer
            /\ sessions'[u].additional_info = sessions[u].additional_info

\* C10 as claimed: the first advance call in onboarding_complete moves to
\* main_chat and returns the "ready to help" text, whatever the message, and
\* leaves the three answers alone; and on the chat page the first message after
\* completion gets that canned reply, only the messages arriving in main_chat go
\* to the coaching response generator (stated here for the sessions whose
\* onboarding answers can be extracted).
C10_Original ==
    [][/\ C10_AdvanceInComplete
       /\ (PageMessage /\ Returned(get_onboarding_data(sessions, last'.user_id))) =>
             /\ sessions[last'.user_id].state = "onboarding_complete"
                   => /\ last'.routed = "state_machine"
                      /\ last'.shown = Some(ready_msg)
             /\ last'.routed = "generator"
                   => sessions[last'.user_id].state = "main_chat"
      ]_vars

\* C10 as amended: the advance call in onboarding_complete does what is
\* claimed; the chat page never makes it: a message typed in
\* onboarding_complete is not answered by the state machine, and not with the
\* "ready to help" text, but handed to the coaching response generator once
\* the onboarding answers are extracted, and it leaves the session in
\* onboarding_complete with its answers as they were.
C10_PageSkipsReady ==
    [][/\ C10_AdvanceInComplete
       /\ (PageMessage /\ sessions[last'.user_id].state = "onboarding_complete") =>
             LET u == last'.user_id
                 extracted == get_onboarding_data(sessions, u)
             IN  /\ last'.routed # "state_machine"
                 /\ last'.shown # Some(ready_msg)
                 /\ Returned(extracted) <=> last'.routed = "generator"
                 /\ sessions'[u].state = "onboarding_complete"
                 /\ sessions'[u].focus_area = sessions[u].focus_area
                 /\ sessions'[u].specific_answer = sessions[u].specific_answer
                 /\ sessions'[u].additional_info = sessions[u].additional_info
      ]_vars

C10_Witness ==
    /\ last.op = "chat_input"
    /\ last.routed = "generator"
    /\ last.shown = Some(strip(reply_squats))
    /\ sessions[last.user_id].state = "onboarding_complete"
    /\ Len(sessions[last.user_id].messages) = 9

\* C11: in every state and for every user id, is_onboarding_complete returns
\* the boolean True when the id has a session whose state is
\* onboarding_complete or main_chat, and the boolean False in every other
\* case, the id without a session included (stated here for the states
\* reached by a call).
C11_IsCompleteBoolean ==
    last.op # "none" =>
        \A u \in UserIds :
            is_onboarding_complete(sessions, u) =
                Some(/\ u \in DOMAIN sessions
                     /\ sessions[u].state \in {"onboarding_complete", "main_chat"})

\* C12: start_chat_session on a user id that already has a session replaces
\* it, whatever its stage and answers were: afterwards the state is
\* asking_focus, the history holds exactly the two new assistant messages (the
\* welcome built from the user data just given and the first question), and
\* focus_area, specific_answer and additional_info are unset.
C12_StartOverwrites ==
    (last.op = "start" /\ last.replaced # "none") =>
        LET session == sessions[last.user_id]
            welcome == _generate_welcome_message(last.user_data.val)
        IN  /\ session.state = "asking_focus"
            /\ session.messages =
                   << ChatMessage("assistant", welcome.value),
                      ChatMessage("assistant", _get_focus_question) >>
            /\ IsNone(session.focus_area)
            /\ IsNone(session.specific_answer)
            /\ IsNone(session.additional_info)

\* start on a session that had gone through the whole onboarding
C12_Witness ==
    /\ last.op = "start"
    /\ last.replaced = "main_chat"
    /\ last.user_data.val.profile.name = name_al

\* C13: every process_user_message call on an existing session keeps the
\* history it found as a prefix of the new history and appends the user's
\* message first, followed by nothing but assistant messages (at most one);
\* get_chat_history returns that history, and the empty sequence for an id
\* that has no session.
C13_HistoryAppendOnly ==
    [][\A u \in UserIds :
          /\ AdvanceOn(u) =>
                LET old == get_chat_history(sessions, u)
                    new == get_chat_history(sessions', u)
                    n == Len(old)
                IN  /\ new = sessions'[u].messages
                    /\ Len(new) \in {n + 1, n + 2}
                    /\ SubSeq(new, 1, n) = old
                    /\ new[n + 1] = ChatMessage("user", last'.message)
                    /\ \A i \in (n + 2)..Len(new) : new[i].role = "assistant"
          /\ u \notin DOMAIN sessions' => get_chat_history(sessions', u) = <<>>
      ]_vars

\* an answer and its reply appended to a history of four messages, while the
\* other id has no session
C13_Witness ==
    /\ last.op = "advance"
    /\ last.user_id \in DOMAIN sessions
    /\ Len(sessions[last.user_id].messages) = 6
    /\ sessions[last.user_id].messages[5] = ChatMessage("user", last.message)
    /\ sessions[last.user_id].messages[6].role = "assistant"
    /\ \E u \in UserIds : u \notin DOMAIN sessions

\* the messages of h at the positions idxs, in the order of h, each on a line
\* of its own behind USER: for a user message and COACH: for any other
RECURSIVE rendered_in_order(_, _)
rendered_in_order(h, idxs) ==
    IF idxs = {} THEN <<>>
    ELSE LET i == CHOOSE i \in idxs : \A j \in idxs : i <= j
         IN  (IF h[i].role = "user" THEN <<"U", "S", "E", "R">> ELSE <<"C", "O", "A", "C", "H">>)
                 \o <<":", " ">> \o h[i].content \o <<"\n">>
                 \o rendered_in_order(h, idxs \ {i})

\* C14: for the history made of the scripted onboarding prompts (question 1,
\* question 2, the final question, the completion message) and two genuine
\* exchanges, the conversation block holds exactly the four messages of the two
\* exchanges and none of the scripted prompts.
C14_ScriptedPromptsFiltered ==
    (last.op = "build_conversation_context" /\ last.chat_history = ScriptedHistory) =>
        last.out.value = recent_conversation \o rendered_in_order(ScriptedHistory, 5..8)

\* C15: for every history the block renders the marker-free messages among
\* the last ten of the history, the last five of them at most, in their order
\* in the history, user messages as USER: lines and all others as COACH: lines;
\* the empty history and a history with nothing to render give their fixed
\* sentence.
C15_ContextWindow ==
    last.op = "build_conversation_context" =>
        LET h == last.chat_history
            n == Len(h)
            window == {i \in 1..n : i > n - MaxContextMessages}
            clean == {i \in window : ~has_marker(h[i])}
            shown == {i \in clean : Cardinality({j \in clean : j > i}) < MaxRendered}
        IN  /\ Cardinality(shown) <= MaxRendered
            /\ last.out.value =
                   IF n = 0 THEN conversation_start
                   ELSE IF shown = {} THEN conversation_beginning
                   ELSE recent_conversation \o rendered_in_order(h, shown)

\* eleven messages, the first one marker-free and out of the window, two of
\* the last ten carrying a keyword and eight not
C15_Witness ==
    /\ last.op = "build_conversation_context"
    /\ last.chat_history = history_of(11, {3, 8}, 2)
    /\ last.out.value = recent_conversation
                            \o rendered_in_order(last.chat_history, {6, 7, 9, 10, 11})

\* s.find(sub): the offset of the first occurrence of sub in s, -1 when there
\* is none
index_of(sub, s) ==
    LET n == Len(s)
        m == Len(sub)
        at(i) == \A j \in 1..m : s[i + j] = sub[j]
    IN  IF \E i \in 0..(n - m) : at(i)
        THEN CHOOSE i \in 0..(n - m) : at(i) /\ \A k \in 0..(i - 1) : ~at(k)
        ELSE -1

\* C16: the assembled prompt opens with the personality section, followed in
\* this order by the user context, the coaching guidelines, the response
\* format, the conversation context and the current message, each behind its
\* header; the personality and the guidelines are those of the user's coach
\* style, the format that of the focus area, and the current message stands
\* verbatim between double quotes.
C16_SectionOrder ==
    last.op = "build_coaching_prompt" =>
        LET p == last.out.value
            user_data == last.user_data.val
            onboarding == last.onboarding.val
            style == user_data.coach_style
            sp == system_prompt_parts
            fp == full_prompt_parts
            context == _build_user_context(user_data, onboarding)
            guidelines == IF style = "david_goggins" THEN coaching_guidelines.david_goggins
                          ELSE coaching_guidelines.normal
            format == IF onboarding.focus_area = kw_workout THEN response_format.workout
                      ELSE response_format.food
            history == build_conversation_context(last.chat_history)
            current == fp[3] \o last.message \o <<"\"">>
            i1 == index_of(sp[1] \o base_coach_personality[style].personality
                               \o sp[2] \o base_coach_personality[style].tone
                               \o sp[3] \o base_coach_personality[style].style, p)
            i2 == index_of(sp[4] \o context, p)
            i3 == index_of(sp[5] \o guidelines, p)
            i4 == index_of(sp[6] \o format, p)
            i5 == index_of(fp[2] \o history, p)
            i6 == index_of(current, p)
        IN  /\ Returned(last.out)
            /\ i1 = 0
            /\ i1 < i2 /\ i2 < i3 /\ i3 < i4 /\ i4 < i5 /\ i5 < i6
            /\ i5 + Len(fp[2] \o history) = i6
            /\ index_of(sp[5], p) = i3
            /\ index_of(sp[6], p) = i4

\* the prompt for the david_goggins style and the food focus, with the scripted
\* history
C16_Witness ==
    /\ last.op = "build_coaching_prompt"
    /\ Returned(last.out)
    /\ last.user_data.val.coach_style = "david_goggins"
    /\ last.onboarding.val.focus_area = kw_food
    /\ last.chat_history = ScriptedHistory
    /\ last.message = msg_both

\* C17: on the chat page a message that arrives while is_onboarding_complete
\* holds goes to generate_coaching_response with the onboarding answers
\* extracted from the session, and what the generator returns is shown and
\* appended to the session's history as an assistant message; a message that
\* arrives while it does not hold is answered with what process_user_message
\* returns and the generator is not called.
C17_PageRouting ==
    [][PageMessage =>
          LET u == last'.user_id
              extracted == get_onboarding_data(sessions, u)
          IN  IF truthy_bool(is_onboarding_complete(sessions, u))
              THEN /\ Returned(extracted)
                   /\ last'.routed = "generator"
                   /\ last'.onboarding = extracted.value
                   /\ Returned(last'.out)
                   /\ ~IsNone(last'.shown)
                   /\ sessions'[u].messages =
                          Append(sessions[u].messages,
                                 ChatMessage("assistant", last'.shown.val))
              ELSE /\ last'.routed = "state_machine"
                   /\ last'.ext = NoExt
                   /\ last'.shown =
                          Some(process_user_message(sessions, u, last'.message).out.value)
      ]_vars

\* C18: a start_chat_session or process_user_message call for one user id
\* leaves the session of every other id as it was (and creates none for it),
\* and does to its own id's session, and returns, what the same call does on a
\* manager that holds that id's session alone; so in every interleaving of the
\* calls for two ids each session ends as when its calls are run alone.
C18_DistinctIdsIndependent ==
    [][last'.op \in {"start", "advance"} =>
          LET a == last'.user_id
              alone == [u \in DOMAIN sessions \cap {a} |-> sessions[u]]
              r == IF last'.op = "start"
                   THEN start_chat_session(alone, last'.user_data.val)
                   ELSE process_user_message(alone, a, last'.message)
          IN  /\ \A b \in UserIds \ {a} :
                    /\ b \in DOMAIN sessions' <=> b \in DOMAIN sessions
                    /\ b \in DOMAIN sessions => sessions'[b] = sessions[b]
              /\ a \in DOMAIN sessions' <=> a \in DOMAIN r.sessions
              /\ a \in DOMAIN sessions' => sessions'[a] = r.sessions[a]
              /\ last'.out = r.out
      ]_vars

\* a call for u2 made between the calls for u1, both sessions under way
C18_Witness ==
    /\ last.op = "advance"
    /\ last.user_id = "u2"
    /\ DOMAIN sessions = {"u1", "u2"}
    /\ sessions["u1"].state = "asking_additional"
    /\ sessions["u2"].state = "asking_specific"

\* C19: generate_quick_response never raises: it returns the stripped text of
\* the model's answer when the style is in the personality table and the
\* external call answers with a text, and in every other case (a style that is
\* not in the table, a failing call whatever its error text, an answer without
\* content) one and the same fallback sentence.
C19_QuickNeverRaises ==
    last.op = "quick_respond" =>
        /\ Returned(last.out)
        /\ IF last.coach_style \in CoachStyles /\ last.ext.kind = "text"
           THEN last.out.value = strip(last.ext.text)
           ELSE last.out.value = quick_fallback

\* a style that is not in the table; a rate-limit error of the external call
C19_Witness ==
    /\ last.op = "quick_respond"
    /\ \/ last.coach_style = "drill_sergeant" /\ last.ext = NoExt
       \/ last.coach_style = "normal" /\ last.ext = Ext("error", err_rate)
    /\ last.out = Return(quick_fallback)

\* C20: UserProfile(...) returns a profile only when the age is in 13..120,
\* the height in 100..250 cm, the weight in 30..300 kg (both held in half
\* units), the goal has 5 to 500 characters and the name is not empty and made
\* of letters, spaces, hyphens and apostrophes only; otherwise it raises and
\* there is no profile.  A returned profile holds the numbers and the goal as
\* given (none moved to a limit), and the name stripped and in title case: no
\* blank at either end, the same letters as given, a letter in upper case
\* exactly when no letter precedes it.
C20_ProfileValidation ==
    last.op = "user_profile" =>
        LET a == last.user_data.val
            valid == /\ a.age >= 13 /\ a.age <= 120
                     /\ a.height_cm >= 2 * 100 /\ a.height_cm <= 2 * 250
                     /\ a.weight_kg >= 2 * 30 /\ a.weight_kg <= 2 * 300
                     /\ Len(a.goal) >= 5 /\ Len(a.goal) <= 500
                     /\ a.name # <<>>
                     /\ \A i \in DOMAIN a.name :
                            a.name[i] \in Letters \cup {" ", "-", "'"}
        IN  /\ Returned(last.out) => valid
            /\ ~valid => Raised(last.out)
            /\ Returned(last.out) =>
                   LET profile == last.out.value
                       nm == profile.name
                   IN  /\ profile.age = a.age
                       /\ profile.height_cm = a.height_cm
                       /\ profile.weight_kg = a.weight_kg
                       /\ profile.goal = a.goal
                       /\ nm # <<>> /\ nm[1] # " " /\ nm[Len(nm)] # " "
                       /\ lower(nm) = lower(strip(a.name))
                       /\ \A i \in DOMAIN nm :
                              nm[i] \in Letters =>
                                  (nm[i] \in DOMAIN LowerOf
                                      <=> (i = 1 \/ nm[i - 1] \notin Letters))

\* "john doe" at the lowest age and the greatest height is stored as
\* "John Doe"; a name of blanks only is refused
C20_Witness ==
    /\ last.op = "user_profile"
    /\ \/ /\ last.user_data.val.name = <<"j", "o", "h", "n", " ", "d", "o", "e">>
          /\ last.user_data.val.age = 13
          /\ last.user_data.val.height_cm = 500
          /\ Returned(last.out)
          /\ last.out.value.name = <<"J", "o", "h", "n", " ", "D", "o", "e">>
       \/ /\ last.user_data.val.name = <<" ">>
          /\ last.user_data.val.age = 13
          /\ Raised(last.out)

\* C21: the user context block names the category of the body mass index
\* weight_kg / (height_cm / 100)^2: underweight below 18.5, normal from 18.5
\* to below 25, overweight from 25 to below 30, obese from 30; for 180 cm and
\* 85 kg it shows 26.2 and overweight.  (Heights and weights in half units.)
C21_BmiBuckets ==
    last.op = "_build_user_context" =>
        LET profile == last.user_data.val.profile
            num == profile.weight_kg * 20000
            den == profile.height_cm * profile.height_cm
            bucket == IF 2 * num < 37 * den THEN <<"u", "n", "d", "e", "r", "w", "e", "i", "g", "h", "t">>
                      ELSE IF num < 25 * den THEN <<"n", "o", "r", "m", "a", "l">>
                      ELSE IF num < 30 * den THEN <<"o", "v", "e", "r", "w", "e", "i", "g", "h", "t">>
                      ELSE <<"o", "b", "e", "s", "e">>
        IN  /\ contains(<<" ", "(">> \o bucket, last.out.value)
            /\ (profile.height_cm = 360 /\ profile.weight_kg = 170)
                   => contains(<<"B", "M", "I", ":", " ", "2", "6", ".", "2", " ", "(", "o", "v", "e", "r", "w", "e", "i", "g", "h", "t", ")">>, last.out.value)

\* C22: the user context block shows the weight in pounds as weight_kg * 2.20462
\* rounded to the nearest integer, and the height as the whole feet and the
\* whole remaining inches of height_cm / 2.54 inches, for every weight from
\* 30 to 300 kg and every height from 100 to 250 cm.
C22_PoundsRoundedFeetTruncated ==
    last.op = "_build_user_context" =>
        LET profile == last.user_data.val.profile
            pounds == (profile.weight_kg * 220462 + 100000) \div 200000
            inches == (profile.height_cm * 25) \div 127
        IN  /\ contains(<<"k", "g", " ", "(">> \o str_int(pounds) \o <<"l", "b", "s", ")">>,
                        last.out.value)
            /\ contains(<<"c", "m", " ", "(">> \o str_int(inches \div 12) \o <<"'">>
                            \o str_int(inches % 12) \o <<"\"", ")">>,
                        last.out.value)

\* C23: in every session the manager holds, focus_area is set exactly when the
\* stage is asking_specific or a later one, specific_answer is set only when
\* the stage is asking_additional or a later one, and additional_info is set
\* only when the stage is onboarding_complete or main_chat.
C23_SlotsAgreeWithStage ==
    \A u \in DOMAIN sessions :
        LET session == sessions[u]
        IN  /\ ~IsNone(session.focus_area) <=> Rank(session.state) >= Rank("asking_specific")
            /\ ~IsNone(session.specific_answer)
                   => Rank(session.state) >= Rank("asking_additional")
            /\ ~IsNone(session.additional_info)
                   => session.state \in {"onboarding_complete", "main_chat"}

\* a session that has gone through all the stages and holds its three answers
C23_Witness ==
    /\ "u1" \in DOMAIN sessions
    /\ sessions["u1"].state = "main_chat"
    /\ ~IsNone(sessions["u1"].focus_area)
    /\ ~IsNone(sessions["u1"].specific_answer)
    /\ ~IsNone(sessions["u1"].additional_info)

\* the words of a message, in lower case
Words(message) == {split(lower(message))[i] : i \in DOMAIN split(lower(message))}

\* C24: in asking_focus the words of the message decide.  A message none of
\* whose words is a food word and one of whose words is a workout word sets
\* focus_area to workout; a message none of whose words is in either
\* vocabulary gets the clarification prompt and leaves the stage; this holds
\* also when a word such as "great" holds a food word ("eat") inside it.
C24_WholeWordsDecide ==
    [][( /\ AdvanceOn("u1")
         /\ sessions["u1"].state = "asking_focus" ) =>
          LET words == Words(last'.message)
          IN  /\ (words \cap FoodWords = {} /\ words \cap WorkoutWords # {})
                     => sessions'["u1"].focus_area = Some(kw_workout)
              /\ (words \cap (FoodWords \cup WorkoutWords) = {})
                     => /\ last'.out = Return(clarification)
                        /\ sessions'["u1"].state = "asking_focus"
      ]_vars

\* C25: once focus_area is set for a session no advance call changes it,
\* whatever words its message holds; the focus of a user id changes or goes
\* only in a step that starts a session for that id.
C25_FocusFixed ==
    [][\A u \in DOMAIN sessions :
          ~IsNone(sessions[u].focus_area) =>
              /\ AdvanceOn(u) => sessions'[u].focus_area = sessions[u].focus_area
              /\ (u \notin DOMAIN sessions' \/ sessions'[u].focus_area # sessions[u].focus_area)
                     => (last'.op = "start" /\ last'.user_id = u)
      ]_vars

\* a session whose focus is workout has been sent "FOOD and gym" as a later
\* answer
C25_Witness ==
    /\ last.op = "advance"
    /\ last.user_id \in DOMAIN sessions
    /\ last.message = msg_both
    /\ sessions[last.user_id].focus_area = Some(kw_workout)
    /\ sessions[last.user_id].state \in {"asking_additional", "main_chat"}

\* s begins with p
starts_with(p, s) == Len(s) >= Len(p) /\ SubSeq(s, 1, Len(p)) = p

\* C26: whenever get_onboarding_data returns answers, their specific_question
\* is the gym-or-home question when the focus is workout and the typical-day
\* question when it is food, whatever the history and the answers are, and it
\* is the first sentence, after the "Question 2 of 3" heading, of the second
\* question the session was asked for that focus.
C26_QuestionFromFocus ==
    \A u \in DOMAIN sessions :
        LET session == sessions[u]
            got == get_onboarding_data(sessions, u)
        IN  (Returned(got) /\ ~IsNone(got.value)) =>
                LET asked == got.value.val.specific_question
                    heading == <<"*", "*", "Q", "u", "e", "s", "t", "i", "o", "n", " ", "2", " ", "o", "f", " ", "3", ":", "*", "*", "\n", "\n">>
                IN  /\ got.value.val.focus_area = session.focus_area.val
                    /\ session.focus_area.val = kw_workout => asked = asked_workout
                    /\ session.focus_area.val = kw_food => asked = asked_food
                    /\ asked_workout # asked_food
                    /\ \E i \in DOMAIN session.messages :
                           /\ session.messages[i].role = "assistant"
                           /\ \/ starts_with(heading \o asked \o <<" ">>,
                                              session.messages[i].content)
                              \/ starts_with(heading \o asked \o <<"\n">>,
                                              session.messages[i].content)

\* answers are returned for a workout session that needed a clarification
\* first
C26_Witness ==
    \E u \in DOMAIN sessions :
        LET got == get_onboarding_data(sessions, u)
        IN  /\ Returned(got) /\ ~IsNone(got.value)
            /\ got.value.val.focus_area = kw_workout
            /\ got.value.val.specific_question = asked_workout
            /\ sessions[u].messages[4].content = clarification

\* C27: whenever is_onboarding_complete holds for a user id,
\* get_onboarding_data returns answers for it: it neither returns None nor
\* raises, whatever texts were given as the specific answer and as the
\* additional information.
C27_CompleteMeansExtractable ==
    \A u \in DOMAIN sessions :
        truthy_bool(is_onboarding_complete(sessions, u)) =>
            LET got == get_onboarding_data(sessions, u)
            IN  Returned(got) /\ ~IsNone(got.value)

\* C28: every text the user submits on the chat page after the session was
\* started is appended to the session history as a user message, in the
\* onboarding branch and in the coaching branch alike, so that the history the
\* page shows and hands to the prompt builder holds each assistant reply after
\* the user message it answers (stated here for the submissions the page
\* handles without an exception).
C28_UtterancesRecorded ==
    [][(PageMessage /\ Returned(last'.out)) =>
          LET u == ui_user_data.val.user_id
              old == sessions[u].messages
              new == sessions'[u].messages
          IN  /\ Len(new) > Len(old)
              /\ new[Len(old) + 1] = ChatMessage("user", last'.message)
      ]_vars

\* C29: for every process_user_message call on an existing session, in every
\* stage, the text returned is the content of the last message of the history,
\* an assistant message appended after the user's message.
C29_ReturnedIsLastMessage ==
    [][\A u \in UserIds :
          AdvanceOn(u) =>
              LET old == sessions[u].messages
                  new == sessions'[u].messages
              IN  /\ Returned(last'.out)
                  /\ Len(new) = Len(old) + 2
                  /\ new[Len(old) + 1] = ChatMessage("user", last'.message)
                  /\ new[Len(new)] = ChatMessage("assistant", last'.out.value)
      ]_vars

\* C30: in asking_focus a message with no vocabulary word leaves the stage, a
\* message that holds one moves to asking_specific, and each of the next two
\* process_user_message calls moves one stage on, the second to
\* onboarding_complete, where is_onboarding_complete holds; so a session in
\* asking_focus whose user keeps sending messages, and in the end one that
\* holds a vocabulary word, reaches onboarding_complete.
C30_OnboardingProgress ==
    /\ [][AdvanceOn("u1") =>
             LET state == sessions["u1"].state
                 recognized == HasFoodWord(last'.message) \/ HasWorkoutWord(last'.message)
             IN  /\ (state = "asking_focus" /\ ~recognized)
                        => sessions'["u1"].state = "asking_focus"
                 /\ (state = "asking_focus" /\ recognized)
                        => sessions'["u1"].state = "asking_specific"
                 /\ state = "asking_specific" => sessions'["u1"].state = "asking_additional"
                 /\ state = "asking_additional"
                        => /\ sessions'["u1"].state = "onboarding_complete"
                           /\ truthy_bool(is_onboarding_complete(sessions', "u1"))
         ]_vars
    /\ (sessions["u1"].state = "asking_focus")
           ~> (/\ sessions["u1"].state = "onboarding_complete"
               /\ truthy_bool(is_onboarding_complete(sessions, "u1")))

\* the onboarding was completed after three answers that held no vocabulary
\* word and one that did
C30_Witness ==
    /\ sessions["u1"].state = "onboarding_complete"
    /\ Len(sessions["u1"].messages) = 14
    /\ sessions["u1"].messages[8].content = clarification
    /\ truthy_bool(is_onboarding_complete(sessions, "u1"))

\* C31: no session the manager holds is in welcome once start_chat_session has
\* returned; so process_user_message on an existing session returns "I'm not
\* sure how to help with that right now." exactly when the session is in
\* main_chat, and then the stage and the three answers are unchanged and the
\* history grows by the user's message alone.
C31_NotSureOnlyInMainChat ==
    /\ [](\A u \in DOMAIN sessions : sessions[u].state # "welcome")
    /\ [][AdvanceOn("u1") =>
             /\ last'.out = Return(not_sure_msg) <=> sessions["u1"].state = "main_chat"
             /\ sessions["u1"].state = "main_chat" =>
                    sessions'["u1"] =
                        [sessions["u1"] EXCEPT
                            !.messages = Append(@, ChatMessage("user", last'.message))]
         ]_vars

\* a message sent in main_chat got the reply and was appended last
C31_Witness ==
    /\ last.op = "advance"
    /\ last.out = Return(not_sure_msg)
    /\ "u1" \in DOMAIN sessions
    /\ sessions["u1"].state = "main_chat"
    /\ sessions["u1"].messages[Len(sessions["u1"].messages)]
           = ChatMessage("user", last.message)
    /\ ~IsNone(sessions["u1"].additional_info)

====
